---------------------------- MODULE Spec2Model ----------------------------
(***************************************************************************)
(* A model of the URDF visualiser of src/visualization.py (class           *)
(* PlotlyURDFVisualizer) and of its variant src/visualization_plotly.py:   *)
(* the forward-kinematics engine, the mesh builders and the scene          *)
(* assembler create_robot_traces.                                          *)
(*                                                                         *)
(* Numbers.  The program computes in floating point; the model computes    *)
(* the same expressions exactly, over integers:                            *)
(*   - an angle is a whole number of quarter turns (1 = pi/2), so that     *)
(*     the sines and cosines of rotation_matrix are exactly -1, 0 or 1;    *)
(*   - a length is a whole number of units of 0.5e-6 m (2 000 000 units    *)
(*     per metre), so that 1e-6 m = 2 units and 0.015 m = 30 000 units;    *)
(*   - an axis component is a whole number of tenths (0.5 = 5);            *)
(*   - the ring angles of a cylinder, np.linspace(0, 2*pi, 20), are not    *)
(*     quarter turns: their cosines and sines are taken from a table of    *)
(*     hundredths (CS = 100), and a mesh keeps with its vertex buffers     *)
(*     the denominator `den` its coordinates are written over.             *)
(***************************************************************************)
EXTENDS Integers, Sequences, FiniteSets, TLC

VARIABLES
    joints,        \* self.joints: the joints, in document order
    links,         \* self.links: the links, in document order
    colors,        \* self.colors: the link palette of detailed mode
    show_inertia,  \* self.show_inertia: TRUE = detailed mode, FALSE = skeleton
    variant,       \* which source file's class the object is an instance of
    op,            \* the method called last ("init" after construction)
    args,          \* the arguments of that call
    ret,           \* what that call returned: [err, val]
    calls,         \* how many forward_kinematics / create_robot_traces calls
                   \* the object has served, counted up to MaxCalls
    presets        \* the presets table of src/interactive_control.py (empty
                   \* where the dashboard is not loaded)

vars == << joints, links, colors, show_inertia, variant, op, args, ret, calls, presets >>

---------------------------------------------------------------------------
(* Bounds of the model.                                                    *)

\* the longest chain whose joints are drawn freely from JointKinds
MaxJoints == 2

\* joint angles are drawn from 0 .. MaxAngle quarter turns
MaxAngle == 2

\* the longest of the long chains
MaxLong == 7

\* the calls on one object are counted up to this number
MaxCalls == 2

---------------------------------------------------------------------------
(* Arithmetic helpers.                                                     *)

Abs(a) == IF a < 0 THEN -a ELSE a

\* abs(x) of Python
PyAbs(a) == Abs(a)

RECURSIVE Gcd(_, _)
Gcd(a, b) == IF b = 0 THEN Abs(a) ELSE Gcd(b, a % Abs(b))

\* the integer square root, exact on perfect squares
ISqrt(n) == CHOOSE r \in 0..n : r * r <= n /\ (r + 1) * (r + 1) > n

IsSquare(n) == ISqrt(n) * ISqrt(n) = n

\* np.cos / np.sin of a whole number of quarter turns
\* the cosine taken for the sine
Cos_as_sine(q) == CASE q % 4 = 0 -> 0
                    [] q % 4 = 1 -> 1
                    [] q % 4 = 2 -> 0
                    [] q % 4 = 3 -> -1

Cos(q) == CASE q % 4 = 0 -> 1
            [] q % 4 = 1 -> 0
            [] q % 4 = 2 -> -1
            [] q % 4 = 3 -> 0

Sin(q) == CASE q % 4 = 0 -> 0
            [] q % 4 = 1 -> 1
            [] q % 4 = 2 -> 0
            [] q % 4 = 3 -> -1

---------------------------------------------------------------------------
(* Matrices: a matrix is a sequence of rows, a vector a sequence.          *)

\* a sequence given by its entries, [t \in 1..n |-> e], as a tuple
Tup(f) == f \o << >>

\* np.eye(n)
Eye(n) == Tup([r \in 1..n |-> Tup([c \in 1..n |-> IF r = c THEN 1 ELSE 0])])

RECURSIVE SumTo(_, _)
SumTo(f, n) == IF n = 0 THEN 0 ELSE f[n] + SumTo(f, n - 1)

\* A @ B for two matrices
MatMul(A, B) ==
    Tup([r \in 1..Len(A) |->
        Tup([c \in 1..Len(B[1]) |->
            SumTo(Tup([t \in 1..Len(B) |-> A[r][t] * B[t][c]]), Len(B))])])

\* A @ v for a matrix and a vector
MatVec(A, v) ==
    Tup([r \in 1..Len(A) |->
        SumTo(Tup([t \in 1..Len(v) |-> A[r][t] * v[t]]), Len(v))])

\* A * s and A + B, elementwise
MatScale(A, s) ==
    Tup([r \in 1..Len(A) |-> Tup([c \in 1..Len(A[1]) |-> A[r][c] * s])])

MatAdd(A, B) ==
    Tup([r \in 1..Len(A) |-> Tup([c \in 1..Len(A[1]) |-> A[r][c] + B[r][c]])])

Transpose(A) == Tup([c \in 1..Len(A[1]) |-> Tup([r \in 1..Len(A) |-> A[r][c]])])

Det3(A) ==
      A[1][1] * (A[2][2] * A[3][3] - A[2][3] * A[3][2])
    - A[1][2] * (A[2][1] * A[3][3] - A[2][3] * A[3][1])
    + A[1][3] * (A[2][1] * A[3][2] - A[2][2] * A[3][1])

\* T = np.eye(4); T[:3, :3] = R; T[:3, 3] = t
Pose(R, t) ==
    Tup([r \in 1..4 |->
        Tup([c \in 1..4 |->
            IF r = 4 THEN (IF c = 4 THEN 1 ELSE 0)
            ELSE IF c = 4 THEN t[r] ELSE R[r][c]])])

\* T[:3, :3] and T[:3, 3]
RotOf(T) == Tup([r \in 1..3 |-> Tup([c \in 1..3 |-> T[r][c]])])

TransOf(T) == << T[1][4], T[2][4], T[3][4] >>

---------------------------------------------------------------------------
(* rotation_matrix and forward_kinematics.                                 *)

R_x(roll) == << << 1, 0, 0 >>,
                << 0, Cos(roll), -Sin(roll) >>,
                << 0, Sin(roll), Cos(roll) >> >>

\* R_y with the same sign on both sines
R_y_same_sign(pitch) == << << Cos(pitch), 0, Sin(pitch) >>,
                           << 0, 1, 0 >>,
                           << Sin(pitch), 0, Cos(pitch) >> >>

R_y(pitch) == << << Cos(pitch), 0, Sin(pitch) >>,
                 << 0, 1, 0 >>,
                 << -Sin(pitch), 0, Cos(pitch) >> >>

\* R_z turned the other way round
R_z_clockwise(yaw) == << << Cos(yaw), Sin(yaw), 0 >>,
                         << -Sin(yaw), Cos(yaw), 0 >>,
                         << 0, 0, 1 >> >>

R_z(yaw) == << << Cos(yaw), -Sin(yaw), 0 >>,
               << Sin(yaw), Cos(yaw), 0 >>,
               << 0, 0, 1 >> >>

rotation_matrix(roll, pitch, yaw) == MatMul(MatMul(R_z(yaw), R_y(pitch)), R_x(roll))

\* 0.5, the threshold on an axis component, in tenths
AxisThreshold == 5

\* T_joint of one joint: its static origin pose
T_joint(joint) ==
    Pose(rotation_matrix(joint.origin.rpy[1], joint.origin.rpy[2], joint.origin.rpy[3]),
         joint.origin.xyz)

\* the rotation turned the other way round for an axis that points the
\* other way
T_rotation_signed(axis, angle) ==
    IF PyAbs(axis[3]) > AxisThreshold
        THEN Pose(rotation_matrix(0, 0, IF axis[3] < 0 THEN -angle ELSE angle),
                  << 0, 0, 0 >>)
    ELSE IF PyAbs(axis[2]) > AxisThreshold
        THEN Pose(rotation_matrix(0, IF axis[2] < 0 THEN -angle ELSE angle, 0),
                  << 0, 0, 0 >>)
    ELSE IF PyAbs(axis[1]) > AxisThreshold
        THEN Pose(rotation_matrix(IF axis[1] < 0 THEN -angle ELSE angle, 0, 0),
                  << 0, 0, 0 >>)
    ELSE Eye(4)

\* the if/elif chain with its tests in the order x, y, z
T_rotation_x_first(axis, angle) ==
    IF PyAbs(axis[1]) > AxisThreshold
        THEN Pose(rotation_matrix(angle, 0, 0), << 0, 0, 0 >>)
    ELSE IF PyAbs(axis[2]) > AxisThreshold
        THEN Pose(rotation_matrix(0, angle, 0), << 0, 0, 0 >>)
    ELSE IF PyAbs(axis[3]) > AxisThreshold
        THEN Pose(rotation_matrix(0, 0, angle), << 0, 0, 0 >>)
    ELSE Eye(4)

\* T_rotation of one joint for one angle: the if/elif chain of the loop body
T_rotation(axis, angle) ==
    IF PyAbs(axis[3]) > AxisThreshold
        THEN Pose(rotation_matrix(0, 0, angle), << 0, 0, 0 >>)
    ELSE IF PyAbs(axis[2]) > AxisThreshold
        THEN Pose(rotation_matrix(0, angle, 0), << 0, 0, 0 >>)
    ELSE IF PyAbs(axis[1]) > AxisThreshold
        THEN Pose(rotation_matrix(angle, 0, 0), << 0, 0, 0 >>)
    ELSE Eye(4)

\* what a call returns, or the exception it raises
Ok(v) == [err |-> "none", val |-> v]

Raise(e) == [err |-> e, val |-> << >>]

\* the loop with the two factors of a joint swapped:
\* current_transform @ T_rotation @ T_joint
RECURSIVE FKLoop_rotation_first(_, _, _, _, _)
FKLoop_rotation_first(js, joint_angles, i, current_transform, transforms) ==
    IF i > Len(js) THEN Ok(transforms)
    ELSE IF i > Len(joint_angles) THEN Raise("IndexError")
    ELSE FKLoop_rotation_first(js, joint_angles, i + 1,
             MatMul(MatMul(current_transform,
                           T_rotation(js[i].axis, joint_angles[i])),
                    T_joint(js[i])),
             Append(transforms,
                    MatMul(MatMul(current_transform,
                                  T_rotation(js[i].axis, joint_angles[i])),
                           T_joint(js[i]))))

\* the loop that takes a missing angle as 0
RECURSIVE FKLoop_padded(_, _, _, _, _)
FKLoop_padded(js, joint_angles, i, current_transform, transforms) ==
    IF i > Len(js) THEN Ok(transforms)
    ELSE FKLoop_padded(js, joint_angles, i + 1,
             MatMul(MatMul(current_transform, T_joint(js[i])),
                    T_rotation(js[i].axis,
                               IF i > Len(joint_angles) THEN 0 ELSE joint_angles[i])),
             Append(transforms,
                    MatMul(MatMul(current_transform, T_joint(js[i])),
                           T_rotation(js[i].axis,
                                      IF i > Len(joint_angles) THEN 0
                                      ELSE joint_angles[i]))))

\* the loop that turns no joint of type fixed
RECURSIVE FKLoop_fixed_unturned(_, _, _, _, _)
FKLoop_fixed_unturned(js, joint_angles, i, current_transform, transforms) ==
    IF i > Len(js) THEN Ok(transforms)
    ELSE IF i > Len(joint_angles) THEN Raise("IndexError")
    ELSE FKLoop_fixed_unturned(js, joint_angles, i + 1,
             MatMul(MatMul(current_transform, T_joint(js[i])),
                    T_rotation(js[i].axis,
                               IF js[i].type = "fixed" THEN 0 ELSE joint_angles[i])),
             Append(transforms,
                    MatMul(MatMul(current_transform, T_joint(js[i])),
                           T_rotation(js[i].axis,
                                      IF js[i].type = "fixed" THEN 0
                                      ELSE joint_angles[i]))))

\* the loop with each angle clamped to the limits of its joint
RECURSIVE FKLoop_clamped(_, _, _, _, _)
FKLoop_clamped(js, joint_angles, i, current_transform, transforms) ==
    IF i > Len(js) THEN Ok(transforms)
    ELSE IF i > Len(joint_angles) THEN Raise("IndexError")
    ELSE FKLoop_clamped(js, joint_angles, i + 1,
             MatMul(MatMul(current_transform, T_joint(js[i])),
                    T_rotation(js[i].axis,
                               IF joint_angles[i] > js[i].limits.upper
                               THEN js[i].limits.upper
                               ELSE IF joint_angles[i] < js[i].limits.lower
                               THEN js[i].limits.lower
                               ELSE joint_angles[i])),
             Append(transforms,
                    MatMul(MatMul(current_transform, T_joint(js[i])),
                           T_rotation(js[i].axis,
                                      IF joint_angles[i] > js[i].limits.upper
                                      THEN js[i].limits.upper
                                      ELSE IF joint_angles[i] < js[i].limits.lower
                                      THEN js[i].limits.lower
                                      ELSE joint_angles[i]))))

\* the loop without the accumulation: each pose is that of its joint alone
RECURSIVE FKLoop_not_cumulative(_, _, _, _, _)
FKLoop_not_cumulative(js, joint_angles, i, current_transform, transforms) ==
    IF i > Len(js) THEN Ok(transforms)
    ELSE IF i > Len(joint_angles) THEN Raise("IndexError")
    ELSE FKLoop_not_cumulative(js, joint_angles, i + 1, current_transform,
             Append(transforms,
                    MatMul(MatMul(current_transform, T_joint(js[i])),
                           T_rotation(js[i].axis, joint_angles[i]))))

\* the loop of forward_kinematics from joint i on (1-based), with the
\* cumulative pose and the poses appended so far
RECURSIVE FKLoop(_, _, _, _, _)
FKLoop(js, joint_angles, i, current_transform, transforms) ==
    IF i > Len(js) THEN Ok(transforms)
    ELSE IF i > Len(joint_angles) THEN Raise("IndexError")
    ELSE LET next == MatMul(MatMul(current_transform, T_joint(js[i])),
                            T_rotation(js[i].axis, joint_angles[i]))
         IN  FKLoop(js, joint_angles, i + 1, next, Append(transforms, next))

forward_kinematics(js, joint_angles) == FKLoop(js, joint_angles, 1, Eye(4), << >>)

---------------------------------------------------------------------------
(* Sequences built by the loops of the mesh builders.                      *)

RECURSIVE ConcatAll(_)
ConcatAll(ss) == IF Len(ss) = 0 THEN << >> ELSE Head(ss) \o ConcatAll(Tail(ss))

\* the column c of a sequence of vectors
Column(vs, c) == Tup([t \in 1..Len(vs) |-> vs[t][c]])

---------------------------------------------------------------------------
(* create_cylinder_mesh.                                                   *)

n_segments == 20

\* the denominator of the cosine and sine tables (hundredths)
CS == 100

\* np.cos and np.sin of t * 2*pi / (n_segments - 1), t = 0 .. n_segments - 2,
\* in hundredths
CosTable == << 100, 95, 79, 55, 25, -8, -40, -68, -88, -99,
               -99, -88, -68, -40, -8, 25, 55, 79, 95 >>

SinTable == << 0, 32, 61, 84, 97, 100, 92, 74, 48, 16,
               -16, -48, -74, -92, -100, -97, -84, -61, -32 >>

\* theta = np.linspace(0, 2 * np.pi, n_segments): n_segments angles from 0 to
\* 2*pi, both ends included, so the step is 2*pi / (n_segments - 1); an angle
\* is the number of such steps
linspace_theta(n) == Tup([t \in 1..n |-> t - 1])

\* cosine and sine have period 2*pi = n_segments - 1 steps
np_cos(t) == CosTable[(t % (n_segments - 1)) + 1]

np_sin(t) == SinTable[(t % (n_segments - 1)) + 1]

\* the index buffers without the faces that close the cylinder
cylinder_faces_not_closed(n) ==
    LET center_bottom_idx == 2 * n + 2 - 2
        center_top_idx == 2 * n + 2 - 1
        side_i == ConcatAll(Tup([t \in 1..(n - 1) |-> << t - 1, t - 1, t - 1 + n >>]))
        side_j == ConcatAll(Tup([t \in 1..(n - 1) |-> << t - 1 + 1, t - 1 + n, t - 1 + n + 1 >>]))
        side_k == ConcatAll(Tup([t \in 1..(n - 1) |-> << t - 1 + n, t - 1 + n + 1, t - 1 + 1 >>]))
        cap_i == ConcatAll(Tup([t \in 1..(n - 1) |-> << center_bottom_idx, center_top_idx >>]))
        cap_j == ConcatAll(Tup([t \in 1..(n - 1) |-> << t - 1, t - 1 + n >>]))
        cap_k == ConcatAll(Tup([t \in 1..(n - 1) |-> << t - 1 + 1, t - 1 + n + 1 >>]))
        last_i == << center_bottom_idx, center_top_idx >>
        last_j == << n - 1, 2 * n - 1 >>
        last_k == << 0, n >>
    IN  [i |-> side_i \o cap_i \o last_i,
         j |-> side_j \o cap_j \o last_j,
         k |-> side_k \o cap_k \o last_k]

\* the side faces, the closing faces and the two cap fans: the index
\* buffers i, j, k of a cylinder of n segments whose vertex buffer holds the
\* ring z=0 at 0..n-1, the ring z=length at n..2n-1, then the two centres
cylinder_faces(n) ==
    LET center_bottom_idx == 2 * n + 2 - 2
        center_top_idx == 2 * n + 2 - 1
        side_i == ConcatAll(Tup([t \in 1..(n - 1) |-> << t - 1, t - 1, t - 1 + n >>]))
        side_j == ConcatAll(Tup([t \in 1..(n - 1) |-> << t - 1 + 1, t - 1 + n, t - 1 + n + 1 >>]))
        side_k == ConcatAll(Tup([t \in 1..(n - 1) |-> << t - 1 + n, t - 1 + n + 1, t - 1 + 1 >>]))
        close_i == << n - 1, n - 1, 2 * n - 1 >>
        close_j == << 0, n, n >>
        close_k == << n, 2 * n - 1, 0 >>
        cap_i == ConcatAll(Tup([t \in 1..(n - 1) |-> << center_bottom_idx, center_top_idx >>]))
        cap_j == ConcatAll(Tup([t \in 1..(n - 1) |-> << t - 1, t - 1 + n >>]))
        cap_k == ConcatAll(Tup([t \in 1..(n - 1) |-> << t - 1 + 1, t - 1 + n + 1 >>]))
        last_i == << center_bottom_idx, center_top_idx >>
        last_j == << n - 1, 2 * n - 1 >>
        last_k == << 0, n >>
    IN  [i |-> side_i \o close_i \o cap_i \o last_i,
         j |-> side_j \o close_j \o cap_j \o last_j,
         k |-> side_k \o close_k \o cap_k \o last_k]

\* go.Mesh3d(x, y, z, i, j, k, color, opacity): coordinates are x/den, y/den,
\* z/den; den = 0 stands for a buffer of NaN; opacity is in tenths
Mesh3d(x, y, z, faces, color, opacity, den) ==
    [kind |-> "Mesh3d", x |-> x, y |-> y, z |-> z,
     i |-> faces.i, j |-> faces.j, k |-> faces.k,
     color |-> color, opacity |-> opacity, den |-> den]

\* the local ring points of a cylinder, over CS: for zi in z: for t in theta
ring_points(radius, z, n) ==
    ConcatAll(Tup([a \in 1..Len(z) |->
        Tup([t \in 1..n |-> << radius * np_cos(linspace_theta(n)[t]),
                           radius * np_sin(linspace_theta(n)[t]),
                           z[a] * CS >>])]))

\* the cylinder whose cap centres are left in the local frame
create_cylinder_mesh_centres_local(radius, length, transform, color) ==
    LET z == << 0, length >>
        local == ring_points(radius, z, n_segments)
        pts == Tup([t \in 1..Len(local) |->
                   MatVec(transform, << local[t][1], local[t][2], local[t][3], CS >>)])
        all == pts \o << << 0, 0, 0, CS >>, << 0, 0, length * CS, CS >> >>
    IN  Mesh3d(Column(all, 1), Column(all, 2), Column(all, 3),
               cylinder_faces(n_segments), color, 7, CS)

create_cylinder_mesh(radius, length, transform, color) ==
    LET z == << 0, length >>
        local == ring_points(radius, z, n_segments)
        pts == Tup([t \in 1..Len(local) |->
                   MatVec(transform, << local[t][1], local[t][2], local[t][3], CS >>)])
        center_bottom == MatVec(transform, << 0, 0, 0, CS >>)
        center_top == MatVec(transform, << 0, 0, length * CS, CS >>)
        all == pts \o << center_bottom, center_top >>
    IN  Mesh3d(Column(all, 1), Column(all, 2), Column(all, 3),
               cylinder_faces(n_segments), color, 7, CS)

---------------------------------------------------------------------------
(* create_box_mesh and create_joint_connector.                             *)

\* the index buffers counted from 1
box_faces_from_one ==
    [i |-> << 1, 1, 1, 2, 2, 5, 5, 6, 3, 3, 8, 8 >>,
     j |-> << 2, 3, 5, 3, 6, 6, 8, 7, 4, 7, 4, 7 >>,
     k |-> << 3, 4, 6, 7, 7, 2, 1, 2, 8, 8, 5, 3 >>]

\* the index buffers shared by the box and the joint connector
box_faces ==
    [i |-> << 0, 0, 0, 1, 1, 4, 4, 5, 2, 2, 7, 7 >>,
     j |-> << 1, 2, 4, 2, 5, 5, 7, 6, 3, 6, 3, 6 >>,
     k |-> << 2, 3, 5, 6, 6, 1, 0, 1, 7, 7, 4, 2 >>]

\* coordinates over 2: sx/2 is sx over 2, sz is 2*sz over 2
create_box_mesh(size, transform, color) ==
    LET sx == size[1]
        sy == size[2]
        sz == size[3]
        vertices == << << -sx, -sy, 0 >>, << sx, -sy, 0 >>,
                       << sx, sy, 0 >>, << -sx, sy, 0 >>,
                       << -sx, -sy, 2 * sz >>, << sx, -sy, 2 * sz >>,
                       << sx, sy, 2 * sz >>, << -sx, sy, 2 * sz >> >>
        pts == Tup([t \in 1..Len(vertices) |->
                   MatVec(transform,
                          << vertices[t][1], vertices[t][2], vertices[t][3], 2 >>)])
    IN  Mesh3d(Column(pts, 1), Column(pts, 2), Column(pts, 3), box_faces, color, 7, 2)

create_joint_connector(position, size, color) ==
    LET s == size
        vertices == << << -s, -s, -s >>, << s, -s, -s >>, << s, s, -s >>, << -s, s, -s >>,
                       << -s, -s, s >>, << s, -s, s >>, << s, s, s >>, << -s, s, s >> >>
        x == Tup([t \in 1..Len(vertices) |-> vertices[t][1] + position[1]])
        y == Tup([t \in 1..Len(vertices) |-> vertices[t][2] + position[2]])
        z == Tup([t \in 1..Len(vertices) |-> vertices[t][3] + position[3]])
    IN  Mesh3d(x, y, z, box_faces, color, 9, 1)

---------------------------------------------------------------------------
(* Exact fractions for create_link_cylinder: a vector or a matrix of       *)
(* numerators over one denominator, in lowest terms.  The denominator 0    *)
(* stands for NaN (0/0) or an infinity (x/0), which numpy propagates.      *)

Dot(a, b) == a[1] * b[1] + a[2] * b[2] + a[3] * b[3]

\* np.cross(a, b)
Cross(a, b) == << a[2] * b[3] - a[3] * b[2],
                  a[3] * b[1] - a[1] * b[3],
                  a[1] * b[2] - a[2] * b[1] >>

Gcd3(v) == Gcd(Gcd(v[1], v[2]), v[3])

\* np.linalg.norm of an integer vector; exact when the squared norm of the
\* vector, divided by the gcd of its components, is a perfect square, and
\* rounded down otherwise
Norm(v) ==
    LET g == Gcd3(v)
    IN  IF g = 0 THEN 0
        ELSE g * ISqrt(Dot(<< v[1] \div g, v[2] \div g, v[3] \div g >>,
                           << v[1] \div g, v[2] \div g, v[3] \div g >>))

ExactNorm(v) ==
    LET g == Gcd3(v)
    IN  IF g = 0 THEN TRUE
        ELSE IsSquare(Dot(<< v[1] \div g, v[2] \div g, v[3] \div g >>,
                          << v[1] \div g, v[2] \div g, v[3] \div g >>))

\* a fraction n/d in lowest terms, d >= 0
Frac(n, d) ==
    IF d = 0 THEN [n |-> 0, d |-> 0]
    ELSE LET g == Gcd(n, d)
             sg == IF d < 0 THEN -1 ELSE 1
         IN  [n |-> sg * (n \div g), d |-> sg * (d \div g)]

FracSub(a, b) == Frac(a.n * b.d - b.n * a.d, a.d * b.d)

\* a / b: x/0 and 0/0 give the denominator 0
FracDiv(a, b) == IF a.d = 0 \/ b.d = 0 THEN Frac(0, 0) ELSE Frac(a.n * b.d, a.d * b.n)

\* a vector of numerators over den, in lowest terms
FracVec(num, den) ==
    IF den = 0 THEN [num |-> << 0, 0, 0 >>, den |-> 0]
    ELSE LET g == Gcd(Gcd3(num), den)
         IN  [num |-> << num[1] \div g, num[2] \div g, num[3] \div g >>,
              den |-> den \div g]

RECURSIVE GcdSeq(_)
GcdSeq(q) == IF Len(q) = 0 THEN 0 ELSE Gcd(Head(q), GcdSeq(Tail(q)))

\* a 3x3 matrix of numerators over den, in lowest terms
FracMat(num, den) ==
    IF den = 0 THEN [num |-> MatScale(Eye(3), 0), den |-> 0]
    ELSE LET g == Gcd(GcdSeq(ConcatAll(num)), den)
         IN  [num |-> Tup([r \in 1..3 |-> Tup([c \in 1..3 |-> num[r][c] \div g])]),
              den |-> den \div g]

FracMatAdd(A, B) ==
    FracMat(MatAdd(MatScale(A.num, B.den), MatScale(B.num, A.den)), A.den * B.den)

FracMatMul(A, B) == FracMat(MatMul(A.num, B.num), A.den * B.den)

FracMatScale(A, f) == FracMat(MatScale(A.num, f.n), A.den * f.d)

\* np.allclose(a, b) for a fraction vector a and an integer vector b:
\* |a - b| <= atol + rtol * |b| in every component, atol = 1e-8, rtol = 1e-5;
\* NaN is close to nothing
allclose(a, b) ==
    /\ a.den # 0
    /\ \A t \in 1..3 :
          Abs(a.num[t] - a.den * b[t]) <= (a.den * (1 + 1000 * Abs(b[t]))) \div 100000000

---------------------------------------------------------------------------
(* create_link_cylinder.                                                   *)

\* 1e-6 m, the length below which no cylinder is built, in length units
DegenerateLength == 2

\* the return value None
None == [kind |-> "None"]

\* the rotation with the antiparallel case mirroring z instead of turning
\* about y
link_rotation_mirror(direction) ==
    LET z_axis == << 0, 0, 1 >>
        minus_z == << 0, 0, -1 >>
    IN  IF allclose(direction, z_axis) THEN FracMat(Eye(3), 1)
        ELSE IF allclose(direction, minus_z)
            THEN FracMat(<< << 1, 0, 0 >>, << 0, 1, 0 >>, << 0, 0, -1 >> >>, 1)
        ELSE LET v == FracVec(Cross(z_axis, direction.num), direction.den)
                 ss == Frac(Dot(v.num, v.num), v.den * v.den)
                 c == Frac(Dot(z_axis, direction.num), direction.den)
                 vx == FracMat(<< << 0, -v.num[3], v.num[2] >>,
                                  << v.num[3], 0, -v.num[1] >>,
                                  << -v.num[2], v.num[1], 0 >> >>, v.den)
                 factor == FracDiv(FracSub(Frac(1, 1), c), ss)
             IN  FracMatAdd(FracMatAdd(FracMat(Eye(3), 1), vx),
                            FracMatScale(FracMatMul(vx, vx), factor))

\* the rotation that maps [0, 0, 1] to direction (a fraction vector)
link_rotation(direction) ==
    LET z_axis == << 0, 0, 1 >>
        minus_z == << 0, 0, -1 >>
    IN  IF allclose(direction, z_axis) THEN FracMat(Eye(3), 1)
        ELSE IF allclose(direction, minus_z)
            THEN FracMat(<< << -1, 0, 0 >>, << 0, 1, 0 >>, << 0, 0, -1 >> >>, 1)
        ELSE LET v == FracVec(Cross(z_axis, direction.num), direction.den)
                 \* s * s, s = np.linalg.norm(v)
                 ss == Frac(Dot(v.num, v.num), v.den * v.den)
                 c == Frac(Dot(z_axis, direction.num), direction.den)
                 vx == FracMat(<< << 0, -v.num[3], v.num[2] >>,
                                  << v.num[3], 0, -v.num[1] >>,
                                  << -v.num[2], v.num[1], 0 >> >>, v.den)
                 factor == FracDiv(FracSub(Frac(1, 1), c), ss)
             IN  FracMatAdd(FracMatAdd(FracMat(Eye(3), 1), vx),
                            FracMatScale(FracMatMul(vx, vx), factor))

\* the vertex and index buffers of the cylinder, given the local ring points
\* and the rotation
link_cylinder_mesh(start_pos, end_pos, color, local, rotation, den) ==
    Mesh3d(Tup([t \in 1..Len(local) |->
               MatVec(rotation.num, local[t])[1] + start_pos[1] * den])
               \o << start_pos[1] * den, end_pos[1] * den >>,
           Tup([t \in 1..Len(local) |->
               MatVec(rotation.num, local[t])[2] + start_pos[2] * den])
               \o << start_pos[2] * den, end_pos[2] * den >>,
           Tup([t \in 1..Len(local) |->
               MatVec(rotation.num, local[t])[3] + start_pos[3] * den])
               \o << start_pos[3] * den, end_pos[3] * den >>,
           cylinder_faces(n_segments), color, 8, den)

\* the part of create_link_cylinder after the test of the length
link_cylinder_of(start_pos, end_pos, radius, color, length, rotation) ==
    link_cylinder_mesh(start_pos, end_pos, color,
                       ring_points(radius, << 0, length >>, n_segments),
                       rotation, rotation.den * CS)

\* end_pos - start_pos
direction_of(start_pos, end_pos) ==
    << end_pos[1] - start_pos[1], end_pos[2] - start_pos[2], end_pos[3] - start_pos[3] >>

link_cylinder_from(start_pos, end_pos, radius, color, raw, length) ==
    IF length < DegenerateLength THEN None
    ELSE link_cylinder_of(start_pos, end_pos, radius, color, length,
                          link_rotation(FracVec(raw, length)))

create_link_cylinder(start_pos, end_pos, radius, color) ==
    link_cylinder_from(start_pos, end_pos, radius, color,
                       direction_of(start_pos, end_pos),
                       Norm(direction_of(start_pos, end_pos)))

---------------------------------------------------------------------------
(* _parse_visual: what a link's <visual> element is loaded as.             *)
(* A <visual> element is [present, geometry, origin, radius, length,       *)
(* size]; geometry is "absent" (no <geometry> child), "cylinder", "box",   *)
(* "mesh" or "other" (a <geometry> with none of the three).                *)

\* the size of the placeholder box of a mesh visual: 0.05 m
MeshPlaceholder == 100000

\* an 'origin' entry: {'xyz': ..., 'rpy': ...}
Origin(xyz, rpy) == [xyz |-> xyz, rpy |-> rpy]

\* an <origin> element (present or not) with its attributes xyz and rpy;
\* attrs names the attributes the element has
OriginElement(present, xyz, rpy) ==
    [present |-> present, attrs |-> {"xyz", "rpy"}, xyz |-> xyz, rpy |-> rpy]

\* an element without one of its attributes
Without(el, attr) == [el EXCEPT !.attrs = @ \ {attr}]

\* an <origin> that lacks an attribute is taken as absent altogether
_parse_origin_all_or_nothing(origin) ==
    IF ~origin.present \/ origin.attrs # {"xyz", "rpy"}
    THEN [xyz |-> << 0, 0, 0 >>, rpy |-> << 0, 0, 0 >>]
    ELSE [xyz |-> origin.xyz, rpy |-> origin.rpy]

\* origin.get('xyz', '0 0 0') and origin.get('rpy', '0 0 0')
_parse_origin(origin) ==
    IF ~origin.present THEN Origin(<< 0, 0, 0 >>, << 0, 0, 0 >>)
    ELSE Origin(IF "xyz" \in origin.attrs THEN origin.xyz ELSE << 0, 0, 0 >>,
                IF "rpy" \in origin.attrs THEN origin.rpy ELSE << 0, 0, 0 >>)

\* a link's 'visual' entry: None, or a dict that has the key 'type' or not
NoVisual ==
    [isNone |-> TRUE, hasType |-> FALSE, type |-> "", origin |-> << >>,
     radius |-> 0, length |-> 0, size |-> << >>]

VisualInfo(type, el, size) ==
    [isNone |-> FALSE, hasType |-> type # "", type |-> type,
     origin |-> _parse_origin(el.origin),
     radius |-> IF type = "cylinder" THEN el.radius ELSE 0,
     length |-> IF type = "cylinder" THEN el.length ELSE 0,
     size |-> size]

\* src/visualization.py
parse_visual_main(el) ==
    IF ~el.present THEN Ok(NoVisual)
    ELSE IF el.geometry = "absent" THEN Ok(NoVisual)
    ELSE IF el.geometry = "cylinder" THEN Ok(VisualInfo("cylinder", el, << >>))
    ELSE IF el.geometry = "box" THEN Ok(VisualInfo("box", el, el.size))
    ELSE IF el.geometry = "mesh"
        THEN Ok(VisualInfo("mesh", el,
                           << MeshPlaceholder, MeshPlaceholder, MeshPlaceholder >>))
    ELSE Ok(NoVisual)

\* src/visualization_plotly.py: no test of geom, no mesh branch, no else
parse_visual_plotly(el) ==
    IF ~el.present THEN Ok(NoVisual)
    ELSE IF el.geometry = "absent" THEN Raise("AttributeError")
    ELSE IF el.geometry = "cylinder" THEN Ok(VisualInfo("cylinder", el, << >>))
    ELSE IF el.geometry = "box" THEN Ok(VisualInfo("box", el, el.size))
    ELSE Ok(VisualInfo("", el, << >>))

_parse_visual(v, el) ==
    IF v = "visualization" THEN parse_visual_main(el) ELSE parse_visual_plotly(el)

---------------------------------------------------------------------------
(* create_robot_traces.                                                    *)

\* 0.015 m and 0.02 m
link_radius == 30000

joint_size == 40000

link_colors == << "#FF6B6B", "#4ECDC4", "#45B7D1", "#FFA07A", "#98D8C8", "#F7DC6F" >>

joint_colors == << "#808080", "#FF8C00", "#87CEEB", "#9370DB", "#87CEEB", "#9370DB",
                   "#4169E1" >>

\* self.colors as __init__ sets it
InitColors == << "#1f77b4", "#ff7f0e", "#2ca02c", "#d62728", "#9467bd", "#8c564b" >>

Min(a, b) == IF a < b THEN a ELSE b

\* T_visual of a visual
T_visual(visual) ==
    Pose(rotation_matrix(visual.origin.rpy[1], visual.origin.rpy[2], visual.origin.rpy[3]),
         visual.origin.xyz)

\* the positions without the base origin
joint_positions_without_base(transforms) ==
    Tup([t \in 1..Len(transforms) |-> TransOf(transforms[t])])

\* positions = [[0, 0, 0]] followed by transform[:3, 3] of each transform
joint_positions(transforms) ==
    << << 0, 0, 0 >> >> \o Tup([t \in 1..Len(transforms) |-> TransOf(transforms[t])])

\* go.Scatter3d(x, y, z, mode='lines+markers', ...)
Scatter3d(positions) ==
    [kind |-> "Scatter3d", x |-> Column(positions, 1), y |-> Column(positions, 2),
     z |-> Column(positions, 3), name |-> "Joints"]

\* the traces one link adds in detailed mode: the mesh of its visual, by type
link_traces(visual, boxTypes, transform, color) ==
    IF visual.type = "cylinder"
        THEN << create_cylinder_mesh(visual.radius, visual.length, transform, color) >>
    ELSE IF visual.type \in boxTypes
        THEN << create_box_mesh(visual.size, transform, color) >>
    ELSE << >>

\* the visual types create_box_mesh is called for: base link, other links
base_box_types(v) == IF v = "visualization" THEN {"box", "mesh"} ELSE {}

other_box_types(v) == IF v = "visualization" THEN {"box", "mesh"} ELSE {"box"}

\* the palette index with enumerate counting from 1
link_color_index_from_one(t, ncolors) == t % ncolors

\* the palette index of the link at position t (1-based) of self.links[1:]:
\* enumerate counts from 0
link_color_index(t, ncolors) == (t - 1) % ncolors

\* the detailed branch (the whole of create_robot_traces in
\* src/visualization_plotly.py)
detailed_traces(v, ls, cols, transforms) ==
    IF Len(ls) = 0 THEN Raise("IndexError")
    ELSE
    LET paired == Min(Len(ls) - 1, Len(transforms))
        drawn(t) == ~ls[t].visual.isNone
        keyError == \E t \in 1..(paired + 1) : drawn(t) /\ ~ls[t].visual.hasType
        base == IF drawn(1)
                THEN link_traces(ls[1].visual, base_box_types(v),
                                 T_visual(ls[1].visual), "#808080")
                ELSE << >>
        others == ConcatAll(Tup([t \in 1..paired |->
                     IF drawn(t + 1)
                     THEN link_traces(ls[t + 1].visual, other_box_types(v),
                                      MatMul(transforms[t], T_visual(ls[t + 1].visual)),
                                      cols[link_color_index(t, Len(cols)) + 1])
                     ELSE << >>]))
    IN  IF keyError THEN Raise("KeyError")
        ELSE Ok(base \o others \o << Scatter3d(joint_positions(transforms)) >>)

\* the number of joint markers: zip(positions, joint_colors)
marker_count(npositions) == Min(npositions, Len(joint_colors))

\* the skeleton branch
skeleton_traces(transforms) ==
    LET positions == joint_positions(transforms)
        cylinders == ConcatAll(Tup([t \in 1..(Len(positions) - 1) |->
                        LET cylinder == create_link_cylinder(
                                positions[t], positions[t + 1], link_radius,
                                link_colors[((t - 1) % Len(link_colors)) + 1])
                        IN  IF cylinder # None THEN << cylinder >> ELSE << >>]))
        markers == Tup([t \in 1..marker_count(Len(positions)) |->
                       create_joint_connector(positions[t], joint_size, joint_colors[t])])
    IN  Ok(cylinders \o markers)

\* create_robot_traces that keeps the list of its last call and returns it
\* again
create_robot_traces_cached(v, js, ls, cols, inertia, joint_angles) ==
    IF op = "create_robot_traces" /\ ret.err = "none" THEN ret
    ELSE LET fk == forward_kinematics(js, joint_angles)
         IN  IF fk.err # "none" THEN fk
             ELSE IF v = "visualization_plotly" \/ inertia
                 THEN detailed_traces(v, ls, cols, fk.val)
             ELSE skeleton_traces(fk.val)

create_robot_traces(v, js, ls, cols, inertia, joint_angles) ==
    LET fk == forward_kinematics(js, joint_angles)
    IN  IF fk.err # "none" THEN fk
        ELSE IF v = "visualization_plotly" \/ inertia
            THEN detailed_traces(v, ls, cols, fk.val)
        ELSE skeleton_traces(fk.val)

---------------------------------------------------------------------------
(* The models the checks run on: what __init__ leaves in self.joints and   *)
(* self.links for a few robot descriptions.                                *)

Joint(name, type, xyz, rpy, axis) ==
    [name |-> name, type |-> type, origin |-> Origin(xyz, rpy), axis |-> axis,
     limits |-> [lower |-> -2, upper |-> 2]]

\* five kinds of joint: the three canonical axes, a skew axis whose largest
\* component is x and whose y also exceeds 0.5, and an axis with no component
\* above 0.5; origins along an axis, slanted, shorter than 1e-6 m, and zero
JointKinds ==
    << Joint("jz", "revolute", << 0, 0, 40 >>, << 0, 0, 0 >>, << 0, 0, 10 >>),
       Joint("jy", "revolute", << 0, 12, 16 >>, << 1, 0, 0 >>, << 0, 10, 0 >>),
       Joint("jx", "fixed", << 0, 0, 1 >>, << 0, 0, 0 >>, << 10, 0, 0 >>),
       Joint("jskew", "revolute", << 0, 0, 0 >>, << 0, 0, 1 >>, << 8, 6, 0 >>),
       Joint("jnone", "continuous", << 30, 0, 0 >>, << 0, 1, 0 >>, << 5, 5, 5 >>) >>

\* the chain of n joints that takes the kinds in turn, from the kind after
\* the o-th on
ChainAt(o, n) == Tup([t \in 1..n |-> JointKinds[((o + t - 1) % Len(JointKinds)) + 1]])

\* the short chains: at most MaxJoints joints, starting at any kind
ShortChains == {ChainAt(o, n) : o \in 0..(Len(JointKinds) - 1), n \in 0..MaxJoints}

\* the long chains (the arm of the repository has 6 joints)
LongChains == {ChainAt(0, n) : n \in 6..MaxLong}

\* a chain of three joints with no origin offsets, about Z, Z and X
PivotChain ==
    << Joint("p1", "revolute", << 0, 0, 0 >>, << 0, 0, 0 >>, << 0, 0, 10 >>),
       Joint("p2", "revolute", << 0, 0, 0 >>, << 0, 0, 0 >>, << 0, 0, 10 >>),
       Joint("p3", "revolute", << 0, 0, 0 >>, << 0, 0, 0 >>, << 10, 0, 0 >>) >>

Chains == ShortChains \cup LongChains \cup {PivotChain}

Visual(geometry, xyz, rpy, radius, length, size) ==
    [present |-> TRUE, geometry |-> geometry, origin |-> OriginElement(TRUE, xyz, rpy),
     radius |-> radius, length |-> length, size |-> size]

VAbsent ==
    [present |-> FALSE, geometry |-> "absent", origin |-> OriginElement(FALSE, << >>, << >>),
     radius |-> 0, length |-> 0, size |-> << >>]

VCyl == Visual("cylinder", << 0, 0, 0 >>, << 0, 0, 0 >>, 50, 40, << >>)

VBox == Visual("box", << 0, 0, 10 >>, << 0, 0, 1 >>, 0, 0, << 20, 30, 40 >>)

VMesh == Visual("mesh", << 0, 0, 0 >>, << 0, 0, 0 >>, 0, 0, << >>)

VOther == Visual("other", << 0, 0, 0 >>, << 0, 0, 0 >>, 0, 0, << >>)

VNoGeom == Visual("absent", << 0, 0, 0 >>, << 0, 0, 0 >>, 0, 0, << >>)

\* a cylinder visual without an <origin> element
VBare == [VCyl EXCEPT !.origin = OriginElement(FALSE, << >>, << >>)]

\* box visuals whose <origin> has no xyz, and no rpy
VNoXyz == [VBox EXCEPT !.origin = Without(@, "xyz")]

VNoRpy == [VBox EXCEPT !.origin = Without(@, "rpy")]

\* the <visual> elements of n links: cylinders and boxes in turn
LongLayout(n) == Tup([t \in 1..n |-> IF t % 2 = 1 THEN VCyl ELSE VBox])

\* the descriptions the detailed mode is run on: the joints and the <visual>
\* elements of the links, in document order; with as many links as joints
\* plus one, with more, and with fewer
Scenes ==
    { << << >>, << >> >>,
      << << >>, << VCyl >> >>,
      << ChainAt(0, 1), << VBox, VCyl, VMesh >> >>,
      << ChainAt(0, 1), << VBox, VMesh >> >>,
      << ChainAt(2, 1), << VBox, VCyl >> >>,
      << ChainAt(1, MaxJoints), << VAbsent, VBox, VOther, VCyl >> >>,
      << ChainAt(1, 2), << VCyl, VNoGeom, VBox >> >>,
      << ChainAt(0, 2), << VMesh >> >>,
      << ChainAt(0, 6), LongLayout(MaxLong + 2) >> }
    \cup {<< ChainAt(0, n), LongLayout(n + 1) >> : n \in 6..MaxLong}

Variants == {"visualization", "visualization_plotly"}

\* the loop of parse_urdf over the links
parse_links(v, layout) ==
    LET parsed == Tup([t \in 1..Len(layout) |-> _parse_visual(v, layout[t])])
    IN  IF \E t \in 1..Len(layout) : parsed[t].err # "none"
        THEN Raise("AttributeError")
        ELSE Ok(Tup([t \in 1..Len(layout) |-> [name |-> t, visual |-> parsed[t].val]]))

DefaultLayout == << VCyl >>

---------------------------------------------------------------------------
(* The joint-angle vectors of the calls.                                   *)

Angles == 0..MaxAngle

\* for a chain of n joints: the vectors of n equal angles and the vector of
\* the angles 1, 2, 3, ... in turn; for a short chain also the vectors with
\* one non-zero angle
ExactVectors(n) ==
    {Tup([t \in 1..n |-> a]) : a \in Angles}
    \cup {Tup([t \in 1..n |-> t % (MaxAngle + 1)])}
    \cup {Tup([t \in 1..n |-> IF t = p THEN a ELSE 0]) :
             p \in IF n <= MaxJoints THEN 1..n ELSE {}, a \in Angles}

\* a quarter turn, none and a half turn
PivotAngles == << 1, 0, 2 >>

\* those, that of the pivot chain, and two vectors of the wrong length: one
\* entry short, one too many
AngleVectors(n) ==
    ExactVectors(n)
    \cup {v \in {PivotAngles} : Len(v) = n}
    \cup {Tup([t \in 1..(n - 1) |-> 1]) : m \in IF n > 0 THEN {n} ELSE {}}
    \cup {Tup([t \in 1..(n + 1) |-> 1])}

---------------------------------------------------------------------------
(* The object: construction, then calls of its methods in any order.       *)

NoArgs == [none |-> TRUE]

Init ==
    /\ colors = InitColors
    /\ op = "init"
    /\ args = NoArgs
    /\ ret = Ok(<< >>)
    /\ calls = 0
    /\ presets = << >>
    /\ \/ /\ variant = "visualization"
          /\ show_inertia = FALSE
          /\ joints \in Chains
          /\ links = parse_links("visualization", DefaultLayout).val
       \/ /\ variant \in Variants
          /\ show_inertia = TRUE
          /\ \E scene \in Scenes :
                /\ parse_links(variant, scene[2]).err = "none"
                /\ joints = scene[1]
                /\ links = parse_links(variant, scene[2]).val

\* one more call served
Counted(n) == IF n < MaxCalls THEN n + 1 ELSE n

CallForwardKinematics ==
    \E joint_angles \in AngleVectors(Len(joints)) :
        /\ op' = "forward_kinematics"
        /\ args' = [joint_angles |-> joint_angles]
        /\ ret' = forward_kinematics(joints, joint_angles)
        /\ calls' = Counted(calls)
        /\ UNCHANGED << joints, links, colors, show_inertia, variant, presets >>

\* create_robot_traces that moves on in the palette at each call
CallCreateRobotTraces_turning_palette ==
    \E joint_angles \in AngleVectors(Len(joints)) :
        /\ op' = "create_robot_traces"
        /\ args' = [joint_angles |-> joint_angles]
        /\ ret' = create_robot_traces(variant, joints, links, colors, show_inertia,
                                      joint_angles)
        /\ calls' = Counted(calls)
        /\ colors' = Tail(colors) \o << Head(colors) >>
        /\ UNCHANGED << joints, links, show_inertia, variant, presets >>

CallCreateRobotTraces ==
    \E joint_angles \in AngleVectors(Len(joints)) :
        /\ op' = "create_robot_traces"
        /\ args' = [joint_angles |-> joint_angles]
        /\ ret' = create_robot_traces(variant, joints, links, colors, show_inertia,
                                      joint_angles)
        /\ calls' = Counted(calls)
        /\ UNCHANGED << joints, links, colors, show_inertia, variant, presets >>

Next == CallForwardKinematics \/ CallCreateRobotTraces

Spec == Init /\ [][Next]_vars

---------------------------------------------------------------------------
(* The mesh builders called on their own, on one object.                   *)

\* roll, pitch, yaw of the placement poses: about one axis, and about several
PoseAngles ==
    {<< a, 0, 0 >> : a \in Angles} \cup {<< 0, a, 0 >> : a \in Angles}
    \cup {<< 0, 0, a >> : a \in Angles} \cup {<< 1, 1, 0 >>, << 1, 2, 1 >>}

PoseTranslations == {<< 0, 0, 0 >>, << 7, -3, 20 >>}

Poses ==
    {Pose(rotation_matrix(e[1], e[2], e[3]), t) : e \in PoseAngles, t \in PoseTranslations}

\* end points of link connectors: along the axes, slanted, and closer to
\* the origin than 1e-6 m
Points ==
    { << 0, 0, 0 >>, << 0, 0, 1 >>, << 0, 0, 2 >>, << 0, 0, 40 >>, << 0, 0, -40 >>,
      << 30, 0, 0 >>, << 0, 12, 16 >>, << 3, 4, 0 >>, << 2, -3, -6 >> }

BoxSizes == {<< 20, 30, 40 >>, << MeshPlaceholder, MeshPlaceholder, MeshPlaceholder >>}

InitMesh ==
    /\ colors = InitColors
    /\ op = "init"
    /\ args = NoArgs
    /\ ret = Ok(<< >>)
    /\ calls = 0
    /\ presets = << >>
    /\ variant = "visualization"
    /\ show_inertia = FALSE
    /\ joints = ChainAt(0, 1)
    /\ links = parse_links("visualization", DefaultLayout).val

CallCreateCylinderMesh ==
    \E radius \in {50}, length \in {0, 40}, transform \in Poses :
        /\ op' = "create_cylinder_mesh"
        /\ args' = [radius |-> radius, length |-> length, transform |-> transform]
        /\ ret' = Ok(create_cylinder_mesh(radius, length, transform, "#808080"))
        /\ UNCHANGED << joints, links, colors, show_inertia, variant, calls, presets >>

CallCreateBoxMesh ==
    \E size \in BoxSizes, transform \in Poses :
        /\ op' = "create_box_mesh"
        /\ args' = [size |-> size, transform |-> transform]
        /\ ret' = Ok(create_box_mesh(size, transform, "#808080"))
        /\ UNCHANGED << joints, links, colors, show_inertia, variant, calls, presets >>

\* the end points are such that the length of the connector is a whole
\* number of units, which Norm computes exactly
CallCreateLinkCylinder ==
    \E start_pos \in Points, end_pos \in Points :
        /\ variant = "visualization"
        /\ ExactNorm(direction_of(start_pos, end_pos))
        /\ op' = "create_link_cylinder"
        /\ args' = [start_pos |-> start_pos, end_pos |-> end_pos, radius |-> link_radius]
        /\ ret' = Ok(create_link_cylinder(start_pos, end_pos, link_radius, "#FF6B6B"))
        /\ UNCHANGED << joints, links, colors, show_inertia, variant, calls, presets >>

CallCreateJointConnector ==
    \E position \in Points, size \in {joint_size} :
        /\ variant = "visualization"
        /\ op' = "create_joint_connector"
        /\ args' = [position |-> position, size |-> size]
        /\ ret' = Ok(create_joint_connector(position, size, "#808080"))
        /\ UNCHANGED << joints, links, colors, show_inertia, variant, calls, presets >>

NextMesh ==
    \/ CallCreateCylinderMesh
    \/ CallCreateBoxMesh
    \/ CallCreateLinkCylinder
    \/ CallCreateJointConnector

SpecMesh == InitMesh /\ [][NextMesh]_vars

---------------------------------------------------------------------------
(* __init__ and parse_urdf: the construction of the object from a robot    *)
(* description, then calls of its methods.  A description is               *)
(* [wellformed, joints, links]: whether ET.parse accepts the file, the     *)
(* <joint> elements and the <visual> elements of the <link> elements, in   *)
(* document order.                                                         *)

\* an <origin>, an <axis> or a <limit> child of a <joint>, present or not
AxisElement(present, xyz) == [present |-> present, attrs |-> {"xyz"}, xyz |-> xyz]

LimitElement(present, lower, upper) ==
    [present |-> present, attrs |-> {"lower", "upper"}, lower |-> lower, upper |-> upper]

\* a <joint> element: its name, its type attribute ("None" when it has
\* none: joint.get('type') is then None), whether it has a <parent> and a
\* <child> element, and its optional children
JointElement(name, type, hasParent, hasChild, origin, axis, limit) ==
    [name |-> name, type |-> type, hasParent |-> hasParent, hasChild |-> hasChild,
     origin |-> origin, axis |-> axis, limit |-> limit]

\* axis.get('xyz', '0 0 1')
_parse_axis(axis) ==
    IF ~axis.present \/ "xyz" \notin axis.attrs THEN << 0, 0, 10 >> ELSE axis.xyz

\* -np.pi and np.pi are -2 and 2 quarter turns
_parse_limits(limit) ==
    IF ~limit.present THEN [lower |-> -2, upper |-> 2]
    ELSE [lower |-> IF "lower" \in limit.attrs THEN limit.lower ELSE -2,
          upper |-> IF "upper" \in limit.attrs THEN limit.upper ELSE 2]

\* joint.find('parent').get('link') raises AttributeError on None
joint_raises(el) == ~el.hasParent \/ ~el.hasChild

\* the dict joint_info of one <joint> element that has a parent and a child
joint_info(el) ==
    [name |-> el.name, type |-> el.type, parent |-> "parent", child |-> "child",
     origin |-> _parse_origin(el.origin), axis |-> _parse_axis(el.axis),
     limits |-> _parse_limits(el.limit)]

\* the number of elements a loop appends before it raises, from element t
\* on: raised[t] tells whether element t raises
RECURSIVE appended_before(_, _)
appended_before(raised, t) ==
    IF t > Len(raised) THEN Len(raised)
    ELSE IF raised[t] THEN t - 1
    ELSE appended_before(raised, t + 1)

joints_appended(es) ==
    appended_before(Tup([t \in 1..Len(es) |-> joint_raises(es[t])]), 1)

visual_raises_main(el) == parse_visual_main(el).err # "none"

visual_raises_plotly(el) == parse_visual_plotly(el).err # "none"

links_appended(v, layout) ==
    appended_before(Tup([t \in 1..Len(layout) |->
                            IF v = "visualization" THEN visual_raises_main(layout[t])
                            ELSE visual_raises_plotly(layout[t])]), 1)

\* parse_urdf: the exception it raises ("none" if none) and what it has
\* appended to self.joints and self.links by then
parse_urdf(v, doc) ==
    IF ~doc.wellformed
        THEN [err |-> "ParseError", joints |-> << >>, links |-> << >>]
    ELSE IF joints_appended(doc.joints) < Len(doc.joints)
        THEN [err |-> "AttributeError",
              joints |-> Tup([t \in 1..joints_appended(doc.joints) |->
                             joint_info(doc.joints[t])]),
              links |-> << >>]
    ELSE [err |-> IF links_appended(v, doc.links) < Len(doc.links)
                  THEN "AttributeError" ELSE "none",
          joints |-> Tup([t \in 1..Len(doc.joints) |-> joint_info(doc.joints[t])]),
          links |-> Tup([t \in 1..links_appended(v, doc.links) |->
                        [name |-> t, visual |-> _parse_visual(v, doc.links[t]).val]])]

\* five <joint> elements: complete; without the type attribute; without
\* <parent>; without <child>; with neither <origin> nor <axis> nor <limit>
JointElements ==
    << JointElement("e_full", "revolute", TRUE, TRUE,
                    OriginElement(TRUE, << 0, 0, 40 >>, << 0, 0, 0 >>),
                    AxisElement(TRUE, << 0, 0, 10 >>), LimitElement(TRUE, -1, 1)),
       JointElement("e_notype", "None", TRUE, TRUE,
                    OriginElement(TRUE, << 0, 12, 16 >>, << 1, 0, 0 >>),
                    AxisElement(TRUE, << 0, 10, 0 >>), LimitElement(TRUE, -1, 1)),
       JointElement("e_noparent", "revolute", FALSE, TRUE,
                    OriginElement(TRUE, << 30, 0, 0 >>, << 0, 0, 0 >>),
                    AxisElement(TRUE, << 10, 0, 0 >>), LimitElement(TRUE, -1, 1)),
       JointElement("e_nochild", "fixed", TRUE, FALSE,
                    OriginElement(TRUE, << 0, 0, 40 >>, << 0, 0, 0 >>),
                    AxisElement(TRUE, << 0, 0, 10 >>), LimitElement(TRUE, -1, 1)),
       JointElement("e_bare", "continuous", TRUE, TRUE,
                    OriginElement(FALSE, << >>, << >>),
                    AxisElement(FALSE, << >>), LimitElement(FALSE, 0, 0)),
       JointElement("e_norpy", "revolute", TRUE, TRUE,
                    Without(OriginElement(TRUE, << 30, 0, 0 >>, << 0, 1, 0 >>), "rpy"),
                    Without(AxisElement(TRUE, << 10, 0, 0 >>), "xyz"),
                    Without(LimitElement(TRUE, -1, 1), "upper")),
       JointElement("e_noxyz", "prismatic", TRUE, TRUE,
                    Without(OriginElement(TRUE, << 30, 0, 0 >>, << 0, 1, 0 >>), "xyz"),
                    AxisElement(TRUE, << 0, 10, 0 >>),
                    Without(LimitElement(TRUE, -1, 1), "lower")) >>

\* the n <joint> elements that take those in turn, from the one after the
\* o-th on
ElementsAt(o, n) ==
    Tup([t \in 1..n |-> JointElements[((o + t - 1) % Len(JointElements)) + 1]])

\* the <visual> elements of the links of a description
LinkLayouts ==
    { << VCyl >>, << VCyl, VOther >>, << VBox, VNoGeom, VMesh >>, << VAbsent, VCyl, VBox >>,
      << VBare, VNoXyz, VNoRpy >> }

Document(wellformed, js, ls) == [wellformed |-> wellformed, joints |-> js, links |-> ls]

Documents ==
    {Document(FALSE, << >>, << >>)}
    \cup {Document(TRUE, ElementsAt(o, n), DefaultLayout) :
             o \in 0..(Len(JointElements) - 1), n \in 0..MaxJoints}
    \cup {Document(TRUE, ElementsAt(0, 1), ls) : ls \in LinkLayouts}

\* before the constructor is called there is no object
InitLoad ==
    /\ colors = << >>
    /\ op = "init"
    /\ args = NoArgs
    /\ ret = Ok(<< >>)
    /\ calls = 0
    /\ presets = << >>
    /\ variant = "visualization"
    /\ show_inertia = FALSE
    /\ joints = << >>
    /\ links = << >>

\* the show_inertia argument of the constructor: that of
\* src/visualization_plotly.py has none, its objects are always detailed
InertiaChoices(v) == IF v = "visualization" THEN BOOLEAN ELSE {TRUE}

\* PlotlyURDFVisualizer(urdf_file, show_inertia) of either source file: the
\* object exists for the caller only if parse_urdf raises nothing
CallInit ==
    \E doc \in Documents, v \in Variants : \E inertia \in InertiaChoices(v) :
        /\ op = "init"
        /\ op' = "__init__"
        /\ args' = [urdf_file |-> doc]
        /\ variant' = v
        /\ show_inertia' = inertia
        /\ colors' = InitColors
        /\ joints' = parse_urdf(v, doc).joints
        /\ links' = parse_urdf(v, doc).links
        /\ ret' = IF parse_urdf(v, doc).err = "none" THEN Ok(<< >>)
                  ELSE Raise(parse_urdf(v, doc).err)
        /\ calls' = 0
        /\ UNCHANGED presets

\* the constructor has returned an object
Constructed == op # "init" /\ ~(op = "__init__" /\ ret.err # "none")

NextLoad ==
    \/ CallInit
    \/ Constructed /\ CallForwardKinematics
    \/ Constructed /\ CallCreateRobotTraces

SpecLoad == InitLoad /\ [][NextLoad]_vars

---------------------------------------------------------------------------
(* Claims.                                                                 *)

\* the call made last, and how it ended
Called(name) == op = name

Returned(name) == op = name /\ ret.err = "none"

\* T_o(i) * T_r(i) * ... * T_o(k) * T_r(k): the product of the origin poses
\* and the joint rotation poses of the joints i..k, in document order
RECURSIVE ChainProduct(_, _, _, _)
ChainProduct(js, angles, i, k) ==
    IF i > k THEN Eye(4)
    ELSE MatMul(T_joint(js[i]),
                MatMul(T_rotation(js[i].axis, angles[i]),
                       ChainProduct(js, angles, i + 1, k)))

\* C1: for a model of n joints and an angle vector of length n,
\* forward_kinematics returns exactly n poses, and pose k is the product
\* T_o(1) * T_r(1) * ... * T_o(k) * T_r(k) of the origin poses and the joint
\* rotation poses of the first k joints, in document order.
C1_ForwardKinematicsIsChainProduct ==
    (Called("forward_kinematics") /\ Len(args.joint_angles) = Len(joints))
    => /\ ret.err = "none"
       /\ Len(ret.val) = Len(joints)
       /\ \A k \in 1..Len(joints) :
             ret.val[k] = ChainProduct(joints, args.joint_angles, 1, k)

\* a call on a chain of at least three joints whose poses are not all the
\* same rotation: the order of the factors matters
C1_Witness ==
    /\ Returned("forward_kinematics")
    /\ Len(joints) >= 3
    /\ Len(args.joint_angles) = Len(joints)
    /\ \E k \in 1..Len(joints) : args.joint_angles[k] # 0
    /\ \E k \in 2..Len(joints) : RotOf(ret.val[k]) # RotOf(ret.val[1])
    /\ TransOf(ret.val[Len(joints)]) # << 0, 0, 0 >>

\* the pose of the chain before joint i: the identity for the first joint
PoseBefore(poses, i) == IF i = 1 THEN Eye(4) ELSE poses[i - 1]

Max3(a, b, c) == IF a >= b /\ a >= c THEN a ELSE IF b >= c THEN b ELSE c

\* the components of an axis whose magnitude exceeds 0.5 (1 = X, 2 = Y, 3 = Z)
OverThreshold(axis) == {c \in 1..3 : Abs(axis[c]) > AxisThreshold}

\* the rotation pose about canonical axis c by an angle
CanonicalRotation(c, angle) ==
    Pose(IF c = 1 THEN R_x(angle) ELSE IF c = 2 THEN R_y(angle) ELSE R_z(angle),
         << 0, 0, 0 >>)

\* the rotation about the canonical axis whose component dominates, when
\* that component exceeds 0.5 in magnitude; the identity otherwise
DominantRotation(axis, angle) ==
    IF OverThreshold(axis) = {} THEN Eye(4)
    ELSE CanonicalRotation(
             CHOOSE c \in 1..3 :
                 Abs(axis[c]) = Max3(Abs(axis[1]), Abs(axis[2]), Abs(axis[3])),
             angle)

\* the rotation about the first of Z, Y, X whose component exceeds 0.5 in
\* magnitude; the identity when none does
PriorityRotation(axis, angle) ==
    IF OverThreshold(axis) = {} THEN Eye(4)
    ELSE CanonicalRotation(
             CHOOSE c \in OverThreshold(axis) : \A d \in OverThreshold(axis) : d <= c,
             angle)

\* C2 as stated: the joint rotation pose of every joint of every kind is the
\* rotation by the supplied angle about the one canonical axis whose
\* component of the joint's axis dominates and exceeds 0.5 in magnitude, and
\* the identity when no component exceeds 0.5.
C2_DominantAxis ==
    (Returned("forward_kinematics") /\ Len(args.joint_angles) = Len(joints))
    => \A i \in 1..Len(joints) :
          ret.val[i] = MatMul(MatMul(PoseBefore(ret.val, i), T_joint(joints[i])),
                              DominantRotation(joints[i].axis, args.joint_angles[i]))

\* C2, amended: the joint rotation pose of every joint of every kind is the
\* rotation by the supplied angle about the first of Z, Y, X, in that
\* order, whose component of the joint's axis exceeds 0.5 in magnitude, and
\* the identity (the angle has no effect) when no component exceeds 0.5.
C2_FirstAxisOverThreshold ==
    (Returned("forward_kinematics") /\ Len(args.joint_angles) = Len(joints))
    => \A i \in 1..Len(joints) :
          ret.val[i] = MatMul(MatMul(PoseBefore(ret.val, i), T_joint(joints[i])),
                              PriorityRotation(joints[i].axis, args.joint_angles[i]))

\* a call that turns, by an angle that is no full turn, a joint whose axis
\* has two components over 0.5 (the smaller one on the earlier-tested axis)
\* and a joint whose axis has none
C2_Witness ==
    /\ Returned("forward_kinematics")
    /\ Len(args.joint_angles) = Len(joints)
    /\ \E i \in 1..Len(joints) :
          /\ Cardinality(OverThreshold(joints[i].axis)) = 2
          /\ args.joint_angles[i] % 4 # 0
          /\ DominantRotation(joints[i].axis, args.joint_angles[i])
                 # PriorityRotation(joints[i].axis, args.joint_angles[i])
    /\ \E i \in 1..Len(joints) :
          /\ OverThreshold(joints[i].axis) = {}
          /\ args.joint_angles[i] % 4 # 0
          /\ joints[i].type # "fixed"

---------------------------------------------------------------------------
(* Claims about the mesh builders.                                         *)

\* vertex v (0-based) of a mesh, as numerators over the mesh's denominator
VertexAt(m, v) == << m.x[v + 1], m.y[v + 1], m.z[v + 1] >>

\* the corners of triangle t (1-based) of a mesh: vertex indices
Triangle(m, t) == {m.i[t], m.j[t], m.k[t]}

Triangles(m) == 1..Len(m.i)

\* the pose applied to the local point p / den, as numerators over den
Placed(transform, p, den) ==
    << MatVec(transform, << p[1], p[2], p[3], den >>)[1],
       MatVec(transform, << p[1], p[2], p[3], den >>)[2],
       MatVec(transform, << p[1], p[2], p[3], den >>)[3] >>

\* the corner of the cuboid on side a of x, side b of y (-1 or 1) and at
\* the bottom (c = 0) or the top (c = 1), in halves
BoxCorner(size, a, b, c) == << a * size[1], b * size[2], 2 * c * size[3] >>

BoxCorners == {<< a, b, c >> : a \in {-1, 1}, b \in {-1, 1}, c \in {0, 1}}

\* the six faces of the cuboid, each the set of its four corners
BoxFaces ==
    {{e \in BoxCorners : e[1] = a} : a \in {-1, 1}}
    \cup {{e \in BoxCorners : e[2] = b} : b \in {-1, 1}}
    \cup {{e \in BoxCorners : e[3] = c} : c \in {0, 1}}

\* the triangles of a box mesh whose three corners are corners of a face
TrianglesOfFace(m, size, transform, face) ==
    {t \in Triangles(m) :
        \A v \in Triangle(m, t) :
            \E e \in face :
                VertexAt(m, v) = Placed(transform, BoxCorner(size, e[1], e[2], e[3]), 2)}

\* C3: create_box_mesh returns 8 vertices, the pose applied to
\* (+-sx/2, +-sy/2, 0) and (+-sx/2, +-sy/2, sz), and 12 triangles such that
\* each of the 6 faces of the cuboid has exactly 2 of them.
C3_BoxTwoTrianglesPerFace ==
    Returned("create_box_mesh")
    => /\ Len(ret.val.x) = 8 /\ Len(ret.val.y) = 8 /\ Len(ret.val.z) = 8
       /\ {VertexAt(ret.val, v) : v \in 0..7}
              = {Placed(args.transform, BoxCorner(args.size, e[1], e[2], e[3]), 2) :
                     e \in BoxCorners}
       /\ Len(ret.val.i) = 12 /\ Len(ret.val.j) = 12 /\ Len(ret.val.k) = 12
       /\ \A t \in Triangles(ret.val) : Cardinality(Triangle(ret.val, t)) = 3
       /\ \A face \in BoxFaces :
             Cardinality(TrianglesOfFace(ret.val, args.size, args.transform, face)) = 2

\* the ring positions 0 .. n_segments - 1 of a cylinder
RingPositions == 0..(n_segments - 1)

VecSub(a, b) == << a[1] - b[1], a[2] - b[2], a[3] - b[3] >>

\* C5: create_cylinder_mesh returns 42 vertices: a ring at z=0 (indices
\* 0..19) and a ring at z=length (indices 20..39), each of 20 vertices at 20
\* distinct angular positions around the axis, then the centre-bottom
\* (index 40) and the centre-top (index 41); every vertex is the local point
\* transformed by the pose.
C5_CylinderTwentyDistinctPositions ==
    (Returned("create_cylinder_mesh") /\ args.radius > 0)
    => /\ Len(ret.val.x) = 42 /\ Len(ret.val.y) = 42 /\ Len(ret.val.z) = 42
       /\ VertexAt(ret.val, 40) = Placed(args.transform, << 0, 0, 0 >>, CS)
       /\ VertexAt(ret.val, 41) = Placed(args.transform, << 0, 0, args.length * CS >>, CS)
       /\ \A p \in RingPositions :
             VecSub(VertexAt(ret.val, p + n_segments), VertexAt(ret.val, p))
                 = VecSub(VertexAt(ret.val, 41), VertexAt(ret.val, 40))
       /\ \A p \in RingPositions : \A q \in RingPositions :
             p # q => /\ VertexAt(ret.val, p) # VertexAt(ret.val, q)
                      /\ VertexAt(ret.val, p + n_segments)
                             # VertexAt(ret.val, q + n_segments)

\* the four corners of the side quad between ring position p and the next
\* one, the position after the last being the first
SideQuad(p) ==
    {p, (p + 1) % n_segments, p + n_segments, ((p + 1) % n_segments) + n_segments}

\* the triangles of the side wall: those that use no centre vertex
SideTriangles(m) ==
    {t \in Triangles(m) : Triangle(m, t) \cap {2 * n_segments, 2 * n_segments + 1} = {}}

TrianglesOfQuad(m, p) == {t \in SideTriangles(m) : Triangle(m, t) \subseteq SideQuad(p)}

\* the triangles of the cap whose centre is vertex c
CapTriangles(m, c) == {t \in Triangles(m) : c \in Triangle(m, t)}

\* the cap of centre c over the ring that starts at vertex base is a fan:
\* every triangle is the centre and two adjacent ring positions, and every
\* pair of adjacent positions has one triangle
IsFan(m, c, base) ==
    /\ \A t \in CapTriangles(m, c) :
          \E p \in RingPositions :
              Triangle(m, t) = {c, base + p, base + ((p + 1) % n_segments)}
    /\ \A p \in RingPositions :
          Cardinality({t \in CapTriangles(m, c) :
              Triangle(m, t) = {c, base + p, base + ((p + 1) % n_segments)}}) = 1

\* every triangle of the wall lies in one side quad, and every side quad,
\* the wrap-around one included, has perQuad triangles
SideWall(m, perQuad) ==
    /\ \A t \in SideTriangles(m) :
          /\ Cardinality(Triangle(m, t)) = 3
          /\ \E p \in RingPositions : Triangle(m, t) \subseteq SideQuad(p)
    /\ \A p \in RingPositions : Cardinality(TrianglesOfQuad(m, p)) = perQuad

\* C6 as stated: in the index buffer of create_cylinder_mesh, the quad
\* between each pair of adjacent ring positions (the wrap-around from 19 to 0
\* included) is split into exactly two triangles, and each cap is a fan of
\* triangles that share the cap's centre and whose other two vertices are
\* adjacent positions of the cap's ring.
C6_TwoTrianglesPerQuad ==
    Returned("create_cylinder_mesh")
    => /\ SideWall(ret.val, 2)
       /\ IsFan(ret.val, 2 * n_segments, 0)
       /\ IsFan(ret.val, 2 * n_segments + 1, n_segments)

\* C6, amended: the quad between each pair of adjacent ring positions (the
\* wrap-around from 19 to 0 included) has exactly three triangles, all with
\* their corners among the quad's four: two that split the quad along one
\* diagonal and a third that overlaps them; each cap is a fan as stated.
C6_ThreeTrianglesPerQuad ==
    Returned("create_cylinder_mesh")
    => /\ SideWall(ret.val, 3)
       /\ \A p \in RingPositions :
             \E t \in TrianglesOfQuad(ret.val, p), u \in TrianglesOfQuad(ret.val, p) :
                 /\ Triangle(ret.val, t) \cup Triangle(ret.val, u) = SideQuad(p)
                 /\ Cardinality(Triangle(ret.val, t) \cap Triangle(ret.val, u)) = 2
       /\ IsFan(ret.val, 2 * n_segments, 0)
       /\ IsFan(ret.val, 2 * n_segments + 1, n_segments)

\* a cylinder of positive length under a pose that turns and moves it
C6_Witness ==
    /\ Returned("create_cylinder_mesh")
    /\ args.length > 0
    /\ RotOf(args.transform) # Eye(3)
    /\ TransOf(args.transform) # << 0, 0, 0 >>
    /\ Len(ret.val.i) = 3 * n_segments + 2 * n_segments
    /\ Cardinality(TrianglesOfQuad(ret.val, n_segments - 1)) = 3

\* the rotation create_link_cylinder uses between two points
RotationBetween(start_pos, end_pos) ==
    link_rotation(FracVec(direction_of(start_pos, end_pos),
                          Norm(direction_of(start_pos, end_pos))))

\* R is a proper rotation: R * R^T = I and det R = 1
IsProperRotation(R) ==
    /\ R.den > 0
    /\ MatMul(R.num, Transpose(R.num)) = MatScale(Eye(3), R.den * R.den)
    /\ Det3(R.num) = R.den * R.den * R.den

\* R maps [0, 0, 1] onto raw / length
MapsZOnto(R, raw, length) ==
    \A c \in 1..3 : MatVec(R.num, << 0, 0, 1 >>)[c] * length = raw[c] * R.den

\* the identity for +Z; a half turn (R * R = I, R # I) for -Z; otherwise the
\* minimal rotation, which leaves the common normal z x direction where it is
IsMinimalRotation(R, raw, length) ==
    IF raw = << 0, 0, length >> THEN R.num = Eye(3) /\ R.den = 1
    ELSE IF raw = << 0, 0, -length >>
        THEN /\ R.den = 1
             /\ MatMul(R.num, R.num) = Eye(3)
             /\ R.num # Eye(3)
    ELSE \A c \in 1..3 :
             MatVec(R.num, Cross(<< 0, 0, 1 >>, raw))[c]
                 = Cross(<< 0, 0, 1 >>, raw)[c] * R.den

\* ring vertex v of mesh m, seen from the point centre and per unit of radius
Spoke(m, v, centre, radius) ==
    << (m.x[v + 1] - centre[1] * m.den) \div radius,
       (m.y[v + 1] - centre[2] * m.den) \div radius,
       (m.z[v + 1] - centre[3] * m.den) \div radius >>

\* the ring of mesh m that starts at vertex base is centred on the point
\* centre: its vertices lie in the plane through centre across the axis raw,
\* all at the distance of the local ring point from the axis
RingCentredOn(m, base, centre, raw, radius, rden) ==
    \A p \in RingPositions :
        /\ Dot(Spoke(m, base + p, centre, radius), raw) = 0
        /\ Dot(Spoke(m, base + p, centre, radius), Spoke(m, base + p, centre, radius))
               = rden * rden * (np_cos(p) * np_cos(p) + np_sin(p) * np_sin(p))

\* C8: for start and end points at least 1e-6 m apart, the rotation
\* create_link_cylinder uses is a proper rotation that maps local +Z onto
\* normalize(end - start): the identity for +Z, a half turn for -Z, the
\* minimal (Rodrigues) rotation otherwise; so the ring built at z=0 is
\* centred on the start point and the ring built at z=length on the end point.
C8_LinkCylinderRotation ==
    (Returned("create_link_cylinder")
        /\ Norm(direction_of(args.start_pos, args.end_pos)) >= DegenerateLength)
    => /\ ret.val # None
       /\ IsProperRotation(RotationBetween(args.start_pos, args.end_pos))
       /\ MapsZOnto(RotationBetween(args.start_pos, args.end_pos),
                    direction_of(args.start_pos, args.end_pos),
                    Norm(direction_of(args.start_pos, args.end_pos)))
       /\ IsMinimalRotation(RotationBetween(args.start_pos, args.end_pos),
                            direction_of(args.start_pos, args.end_pos),
                            Norm(direction_of(args.start_pos, args.end_pos)))
       /\ ret.val.den = RotationBetween(args.start_pos, args.end_pos).den * CS
       /\ Len(ret.val.x) = 2 * n_segments + 2
       /\ RingCentredOn(ret.val, 0, args.start_pos,
                        direction_of(args.start_pos, args.end_pos), args.radius,
                        RotationBetween(args.start_pos, args.end_pos).den)
       /\ RingCentredOn(ret.val, n_segments, args.end_pos,
                        direction_of(args.start_pos, args.end_pos), args.radius,
                        RotationBetween(args.start_pos, args.end_pos).den)

\* a connector between two points off the origin, slanted to the z axis
C8_Witness ==
    /\ Returned("create_link_cylinder")
    /\ ret.val # None
    /\ args.start_pos # << 0, 0, 0 >>
    /\ direction_of(args.start_pos, args.end_pos)[1] # 0
    /\ direction_of(args.start_pos, args.end_pos)[3] # 0
    /\ RotationBetween(args.start_pos, args.end_pos).den > 1

---------------------------------------------------------------------------
(* Claims about create_robot_traces.                                       *)

\* the mode create_robot_traces runs in
Skeleton == variant = "visualization" /\ ~show_inertia

Detailed == ~Skeleton

\* the joint positions of the call: the base origin, then the translation
\* of the product of the poses of the first k joints
PositionOf(k) ==
    IF k = 0 THEN << 0, 0, 0 >>
    ELSE TransOf(ChainProduct(joints, args.joint_angles, 1, k))

IsMesh(trace) == trace.kind = "Mesh3d"

\* the joint markers are the meshes of opacity 0.9, the link connectors
\* those of opacity 0.8
IsMarker(trace) == trace.kind = "Mesh3d" /\ trace.opacity = 9

IsConnector(trace) == trace.kind = "Mesh3d" /\ trace.opacity = 8

\* the cube of a marker is centred on a point: its corners 0 and 6 are
\* opposite each other
MarkerCentredOn(m, point) ==
    \A c \in 1..3 : VertexAt(m, 0)[c] + VertexAt(m, 6)[c] = 2 * point[c] * m.den

\* C4: in skeleton mode create_robot_traces emits exactly joints.count + 1
\* joint markers, one for every position (the base origin and the
\* translation of each pose), for a model of any joint count.
C4_MarkerPerPosition ==
    (Returned("create_robot_traces") /\ Skeleton)
    => /\ Len(SelectSeq(ret.val, IsMarker)) = Len(joints) + 1
       /\ \A k \in 0..Len(joints) :
             k + 1 <= Len(SelectSeq(ret.val, IsMarker))
             => MarkerCentredOn(SelectSeq(ret.val, IsMarker)[k + 1], PositionOf(k))

\* the pair of positions k - 1 and k is at least 1e-6 m long
PairHasLength(k) ==
    Norm(direction_of(PositionOf(k - 1), PositionOf(k))) >= DegenerateLength

\* the pairs of consecutive positions that are at least 1e-6 m long, in order
LongPairs == SelectSeq(Tup([k \in 1..Len(joints) |-> k]), PairHasLength)

\* the connector runs from one point to another: its two centre vertices
ConnectorBetween(m, from, to) ==
    /\ VertexAt(m, 2 * n_segments) = << from[1] * m.den, from[2] * m.den, from[3] * m.den >>
    /\ VertexAt(m, 2 * n_segments + 1) = << to[1] * m.den, to[2] * m.den, to[3] * m.den >>

\* C7: skeleton-mode create_robot_traces emits no connector for a pair of
\* positions less than 1e-6 m apart (create_link_cylinder returns no
\* primitive for it), while it emits the connectors of all other pairs and
\* all joint markers; no emitted mesh has a NaN vertex.
C7_DegeneratePairSkipped ==
    (Returned("create_robot_traces") /\ Skeleton)
    => /\ Len(SelectSeq(ret.val, IsConnector)) = Len(LongPairs)
       /\ \A c \in 1..Len(LongPairs) :
             c <= Len(SelectSeq(ret.val, IsConnector))
             => ConnectorBetween(SelectSeq(ret.val, IsConnector)[c],
                                 PositionOf(LongPairs[c] - 1), PositionOf(LongPairs[c]))
       /\ Len(SelectSeq(ret.val, IsMarker)) = Len(joints) + 1
       /\ \A t \in 1..Len(ret.val) : IsMesh(ret.val[t]) => ret.val[t].den # 0

\* link t (1-based; links[t - 1] of the code) adds a mesh in detailed mode
EmitsMesh(t) ==
    /\ t <= Len(joints) + 1
    /\ ~links[t].visual.isNone
    /\ \/ links[t].visual.type = "cylinder"
       \/ links[t].visual.type
              \in (IF t = 1 THEN base_box_types(variant) ELSE other_box_types(variant))

\* the links that add a mesh, in document order
EmittingLinks == SelectSeq(Tup([t \in 1..Len(links) |-> t]), EmitsMesh)

\* the meshes are emitted in the order of their links, and the mesh of
\* every link after the base has the palette colour at offset + the link's
\* number (0 for the base link), modulo the palette length
LinkColours(offset) ==
    /\ Len(SelectSeq(ret.val, IsMesh)) = Len(EmittingLinks)
    /\ \A c \in 1..Len(EmittingLinks) :
          EmittingLinks[c] > 1
          => SelectSeq(ret.val, IsMesh)[c].color
                 = colors[((EmittingLinks[c] - 1 + offset) % Len(colors)) + 1]

\* C9 as stated: in detailed mode, the mesh of link i (i >= 1, the base
\* link being link 0) has the palette entry at index i mod paletteLength of
\* the 6-colour palette.
C9_PaletteIndexIsLinkNumber ==
    (Returned("create_robot_traces") /\ Detailed) => LinkColours(0)

\* C9, amended: in detailed mode, the mesh of link i (i >= 1, the base link
\* being link 0) has the palette entry at index (i - 1) mod paletteLength of
\* the 6-colour palette: the first link after the base takes entry 0.
C9_PaletteIndexIsLinkNumberLessOne ==
    (Returned("create_robot_traces") /\ Detailed)
    => /\ Len(colors) = 6
       /\ LinkColours(-1)

\* a detailed scene in which the palette wraps around: link 7 has a mesh
C9_Witness ==
    /\ Returned("create_robot_traces")
    /\ Detailed
    /\ \E c \in 1..Len(EmittingLinks) :
          /\ EmittingLinks[c] - 1 = 7
          /\ c <= Len(SelectSeq(ret.val, IsMesh))
          /\ SelectSeq(ret.val, IsMesh)[c].color = colors[1]
    /\ \E c \in 1..Len(EmittingLinks) : EmittingLinks[c] - 1 = 1

\* a link has visual geometry: a cylinder, a box or a mesh visual
HasGeometry(link) ==
    /\ ~link.visual.isNone
    /\ link.visual.type \in {"cylinder", "box", "mesh"}

\* C10: in detailed mode create_robot_traces raises no error and emits as
\* many link meshes as there are links with visual geometry (cylinder, box
\* or mesh), the base link included, whatever the numbers of links and of
\* joints; a link without recognised visual geometry adds nothing.
C10_MeshPerLinkWithGeometry ==
    (Called("create_robot_traces") /\ Detailed
        /\ Len(args.joint_angles) = Len(joints))
    => /\ ret.err = "none"
       /\ Len(SelectSeq(ret.val, IsMesh))
              = Cardinality({t \in 1..Len(links) : HasGeometry(links[t])})

---------------------------------------------------------------------------
(* Claims about loading.                                                   *)

\* the description the constructor was called on
Loaded == args.urdf_file

\* a <joint> element lacks its type attribute, its <parent> or its <child>
Incomplete(el) == el.type = "None" \/ ~el.hasParent \/ ~el.hasChild

HasIncompleteJoint(doc) == \E t \in 1..Len(doc.joints) : Incomplete(doc.joints[t])

\* C11: loading fails with an error and yields no model whenever the
\* document is malformed or a joint lacks its type attribute, its parent
\* element or its child element; a model is returned only when every joint
\* has all three.
C11_LoadFailsOnIncompleteJoint ==
    Called("__init__")
    => /\ (~Loaded.wellformed \/ HasIncompleteJoint(Loaded))
              => (ret.err # "none" /\ ret.val = << >>)
       /\ ret.err = "none"
              => \A t \in 1..Len(Loaded.joints) : ~Incomplete(Loaded.joints[t])

\* a <visual> element without recognised geometry: no <geometry> element,
\* or one with no cylinder, box or mesh child
Unrecognised(el) == el.present /\ el.geometry \in {"absent", "other"}

\* the description loads but for its links: it is well-formed and every
\* joint has a parent and a child
JointsLoad(doc) ==
    doc.wellformed /\ \A t \in 1..Len(doc.joints) : ~joint_raises(doc.joints[t])

\* the loaded links, with visual = None for the links whose <visual> has no
\* recognised geometry
WithNoneFor(ls, doc) ==
    Tup([t \in 1..Len(ls) |->
        IF Unrecognised(doc.links[t]) THEN [name |-> ls[t].name, visual |-> NoVisual]
        ELSE ls[t]])

ZeroAngles(n) == Tup([t \in 1..n |-> 0])

\* C12: a link whose visual has no recognised geometry (no cylinder, box or
\* mesh child, or no geometry element at all) is loaded with visual = None
\* without any error, and evaluating the model afterwards does not fail
\* because of that link: create_robot_traces ends as it does when the link
\* has no visual at all.
C12_UnrecognisedVisualIsNone ==
    (Called("__init__") /\ JointsLoad(Loaded))
    => /\ ret.err = "none"
       /\ Len(links) = Len(Loaded.links)
       /\ \A t \in 1..Len(links) :
             Unrecognised(Loaded.links[t]) => links[t].visual.isNone
       /\ create_robot_traces(variant, joints, links, colors, show_inertia,
                              ZeroAngles(Len(joints))).err
              = create_robot_traces(variant, joints, WithNoneFor(links, Loaded), colors,
                                    show_inertia, ZeroAngles(Len(joints))).err

---------------------------------------------------------------------------
(* Claims about the poses of forward_kinematics.                           *)

\* the rotation block of a pose is orthonormal with determinant +1 and the
\* bottom row of the pose is (0, 0, 0, 1)
IsRigid(T) ==
    /\ Len(T) = 4 /\ \A r \in 1..4 : Len(T[r]) = 4
    /\ MatMul(RotOf(T), Transpose(RotOf(T))) = Eye(3)
    /\ MatMul(Transpose(RotOf(T)), RotOf(T)) = Eye(3)
    /\ Det3(RotOf(T)) = 1
    /\ T[4] = << 0, 0, 0, 1 >>

\* C13: every pose forward_kinematics returns has a rotation block that is
\* orthonormal with determinant +1 and the bottom row (0, 0, 0, 1), for
\* every model and every angle vector.
C13_PosesAreRigid ==
    Returned("forward_kinematics")
    => \A k \in 1..Len(ret.val) : IsRigid(ret.val[k])

\* a call on joints with a turned origin and different axes, by angles that
\* are not all zero, whose last pose is turned about more than one axis
C13_Witness ==
    /\ Returned("forward_kinematics")
    /\ Len(ret.val) >= 2
    /\ \E k \in 1..Len(joints) : joints[k].origin.rpy # << 0, 0, 0 >>
    /\ \E k \in 1..Len(joints) : joints[k].origin.rpy[2] # 0
    /\ \E k \in 1..Len(ret.val) : args.joint_angles[k] % 4 # 0
    /\ \A c \in 1..3 : RotOf(ret.val[Len(ret.val)])[c][c] # 1

NoOffsets(js) ==
    \A k \in 1..Len(js) : js[k].origin = Origin(<< 0, 0, 0 >>, << 0, 0, 0 >>)

\* a quarter turn about +Z, and that followed by a half turn about +X
QuarterTurnZ == << << 0, -1, 0 >>, << 1, 0, 0 >>, << 0, 0, 1 >> >>

QuarterTurnZHalfTurnX == << << 0, 1, 0 >>, << 1, 0, 0 >>, << 0, 0, -1 >> >>

\* the chain and the angles of C14
PivotCase ==
    /\ Returned("forward_kinematics")
    /\ Len(joints) = 3 /\ NoOffsets(joints)
    /\ joints[1].axis = << 0, 0, 10 >> /\ joints[2].axis = << 0, 0, 10 >>
    /\ joints[3].axis = << 10, 0, 0 >>
    /\ args.joint_angles = << 1, 0, 2 >>

\* C14: on a chain of three joints without origin offsets, about Z by a
\* quarter turn, about Z by nothing and about X by a half turn, the three
\* poses have the translation (0, 0, 0) and the rotations Rz(pi/2),
\* Rz(pi/2) and Rz(pi/2) Rx(pi).
C14_PivotChainPoses ==
    PivotCase
    => /\ Len(ret.val) = 3
       /\ \A k \in 1..3 : TransOf(ret.val[k]) = << 0, 0, 0 >>
       /\ RotOf(ret.val[1]) = QuarterTurnZ
       /\ RotOf(ret.val[2]) = QuarterTurnZ
       /\ RotOf(ret.val[3]) = QuarterTurnZHalfTurnX

C14_Witness == PivotCase /\ Len(ret.val) = 3

\* joint k is about +Z, its origin is not turned, and it is turned by a
\* quarter
QuarterAboutZ(k) ==
    /\ joints[k].axis = << 0, 0, 10 >>
    /\ joints[k].origin.rpy = << 0, 0, 0 >>
    /\ args.joint_angles[k] = 1

\* C15: a joint about (0, 0, 1) whose origin is not turned, at the angle
\* pi/2, takes its local point (1, 0, 0) to (0, 1, 0) plus the translation
\* of its origin, seen from the frame before the joint.
C15_QuarterTurnAboutZ ==
    Returned("forward_kinematics")
    => \A k \in 1..Len(ret.val) :
          QuarterAboutZ(k)
          => MatVec(ret.val[k], << 1, 0, 0, 1 >>)
             = MatVec(PoseBefore(ret.val, k),
                      << joints[k].origin.xyz[1], joints[k].origin.xyz[2] + 1,
                         joints[k].origin.xyz[3], 1 >>)

\* such a joint with an origin that is moved, first in its chain and later
C15_Witness ==
    /\ Returned("forward_kinematics")
    /\ Len(ret.val) >= 1
    /\ QuarterAboutZ(1)
    /\ joints[1].origin.xyz # << 0, 0, 0 >>
    /\ MatVec(ret.val[1], << 1, 0, 0, 1 >>)
       = << joints[1].origin.xyz[1], joints[1].origin.xyz[2] + 1,
            joints[1].origin.xyz[3], 1 >>

\* the product of the static origin poses of the first k joints
RECURSIVE OriginProduct(_, _)
OriginProduct(js, k) ==
    IF k = 0 THEN Eye(4) ELSE MatMul(OriginProduct(js, k - 1), T_joint(js[k]))

ZeroCall ==
    /\ Returned("forward_kinematics")
    /\ \A k \in 1..Len(ret.val) : args.joint_angles[k] = 0

\* C16: with every angle 0 the rotation of each joint is the identity
\* whatever its axis, and pose k is the product of the origin poses of the
\* joints up to k alone.
C16_ZeroAnglesLeaveOrigins ==
    ZeroCall
    => \A k \in 1..Len(ret.val) :
          /\ T_rotation(joints[k].axis, args.joint_angles[k]) = Eye(4)
          /\ ret.val[k] = OriginProduct(joints, k)

\* such a call on joints about different axes, whose origins turn and move
C16_Witness ==
    /\ ZeroCall
    /\ Len(ret.val) >= 2
    /\ \E k \in 1..Len(joints) : joints[k].origin.rpy # << 0, 0, 0 >>
    /\ \E j, k \in 1..Len(joints) : joints[j].axis # joints[k].axis
    /\ ret.val[Len(ret.val)] # Eye(4)

---------------------------------------------------------------------------
(* Claims about calls that follow other calls.                             *)

\* what the poses of the model at the angles of the call are drawn as, from
\* the model and the arguments of the call alone
TracesOfPoses(poses) ==
    IF Detailed THEN detailed_traces(variant, links, colors, poses)
    ELSE skeleton_traces(poses)

ResultAlone ==
    LET fk == forward_kinematics(joints, args.joint_angles)
    IN  IF op = "forward_kinematics" \/ fk.err # "none" THEN fk
        ELSE TracesOfPoses(fk.val)

\* C17: whatever create_robot_traces calls went before, a call returns the
\* list that the model and its own angles and mode determine: the same as
\* any other call with these.
C17_TracesIndependentOfEarlierCalls ==
    Called("create_robot_traces") => ret = ResultAlone

\* a call that follows another and returns meshes, in either mode
C17_Witness ==
    /\ Returned("create_robot_traces")
    /\ calls >= 2
    /\ Len(joints) >= 2
    /\ \E t \in 1..Len(ret.val) : IsMesh(ret.val[t])

ModelUnchanged ==
    /\ joints' = joints
    /\ links' = links
    /\ colors' = colors
    /\ show_inertia' = show_inertia
    /\ variant' = variant

\* C18: no forward_kinematics or create_robot_traces call, in whatever
\* order they come, modifies the joints, the links, the palette or the
\* mode of the model, and each returns what it returns when run alone.
C18_ModelNeverModified ==
    /\ [][ModelUnchanged]_vars
    /\ [](Called("forward_kinematics") \/ Called("create_robot_traces")
          => ret = ResultAlone)

\* a forward_kinematics call that follows other calls, on a model of both
\* joints and links with geometry
C18_Witness ==
    /\ Returned("forward_kinematics")
    /\ calls >= 2
    /\ Detailed
    /\ Len(joints) >= 1 /\ Len(links) >= 2
    /\ ret.val # << >>

---------------------------------------------------------------------------
(* Claims about the order and the placement of the traces.                 *)

\* trace number t of the list is the connector of the c-th pair that has a
\* length
ConnectorInPlace(t, c) ==
    /\ IsConnector(ret.val[t])
    /\ ConnectorBetween(ret.val[t], PositionOf(LongPairs[c] - 1), PositionOf(LongPairs[c]))

\* trace number t of the list is the marker of position k
MarkerInPlace(t, k) ==
    /\ IsMarker(ret.val[t])
    /\ MarkerCentredOn(ret.val[t], PositionOf(k))

\* the list is the connectors of the pairs that have a length, in chain
\* order, and then the markers of the first n positions, in chain order
ConnectorsThenMarkers(n) ==
    /\ Len(ret.val) = Len(LongPairs) + n
    /\ \A c \in 1..Len(LongPairs) : c <= Len(ret.val) => ConnectorInPlace(c, c)
    /\ \A k \in 0..(n - 1) :
          Len(LongPairs) + k + 1 <= Len(ret.val)
          => MarkerInPlace(Len(LongPairs) + k + 1, k)

\* C19: in skeleton mode the list of create_robot_traces is the connectors
\* of the consecutive pairs of positions in chain order (those without
\* length left out), followed by the joint markers in chain order from the
\* base to the end effector.
C19_ConnectorsThenAllMarkers ==
    (Returned("create_robot_traces") /\ Skeleton)
    => ConnectorsThenMarkers(Len(joints) + 1)

\* the pose of the visual origin of a link in the frame of the link
VisualOrigin(link) ==
    Pose(rotation_matrix(link.visual.origin.rpy[1], link.visual.origin.rpy[2],
                         link.visual.origin.rpy[3]),
         link.visual.origin.xyz)

\* the mesh of the geometry of a link placed with a pose (a mesh visual is
\* drawn as its placeholder box), whatever its colour
Tessellated(link, pose) ==
    IF link.visual.type = "cylinder"
    THEN create_cylinder_mesh(link.visual.radius, link.visual.length, pose, "")
    ELSE create_box_mesh(link.visual.size, pose, "")

\* the list has a mesh of the link at links[t] that is placed with a pose
TessellatedWith(t, pose) ==
    \E c \in 1..Len(ret.val) :
        /\ IsMesh(ret.val[c])
        /\ [ret.val[c] EXCEPT !.color = ""] = Tessellated(links[t], pose)

\* the link at links[t] is placed as claimed: the base link (t = 1) with
\* its visual origin, the link after joint t - 1 with the pose of that joint
\* times its visual origin
PlacedOnChain(t) ==
    IF t = 1 THEN TessellatedWith(1, VisualOrigin(links[1]))
    ELSE /\ t - 1 <= Len(joints)
         /\ TessellatedWith(t, MatMul(ChainProduct(joints, args.joint_angles, 1, t - 1),
                                      VisualOrigin(links[t])))

\* C20: in detailed mode every link after the base that has visual
\* geometry is tessellated with the pose of the joint before it times the
\* pose of its visual origin, and the base link with the pose of its
\* visual origin alone.
C20_LinksPlacedOnChain ==
    (Returned("create_robot_traces") /\ Detailed)
    => \A t \in 1..Len(links) : HasGeometry(links[t]) => PlacedOnChain(t)

\* the pose the link at links[t] is drawn with: that of the joint before it
\* (none for the base link) times its visual origin
ChainPose(t) ==
    IF t = 1 THEN VisualOrigin(links[1])
    ELSE MatMul(ChainProduct(joints, args.joint_angles, 1, t - 1), VisualOrigin(links[t]))

\* the positions of the call, from the base origin to the last joint
ChainPositions == Tup([k \in 1..(Len(joints) + 1) |-> PositionOf(k - 1)])

\* a polyline through points
IsOverlayOf(trace, points) ==
    /\ trace.kind = "Scatter3d"
    /\ trace.x = Tup([k \in 1..Len(points) |-> points[k][1]])
    /\ trace.y = Tup([k \in 1..Len(points) |-> points[k][2]])
    /\ trace.z = Tup([k \in 1..Len(points) |-> points[k][3]])

\* C21: in detailed mode the list of create_robot_traces is the mesh of the
\* base link (if it is drawn), then the meshes of the later links in chain
\* order, then one polyline as the last element, through joints.count + 1
\* points: the base origin and then the translation of each pose in joint
\* order.
C21_MeshesThenOverlay ==
    (Returned("create_robot_traces") /\ Detailed)
    => /\ Len(ret.val) = Len(EmittingLinks) + 1
       /\ \A c \in 1..Len(EmittingLinks) :
             c <= Len(ret.val)
             => /\ IsMesh(ret.val[c])
                /\ [ret.val[c] EXCEPT !.color = ""]
                       = Tessellated(links[EmittingLinks[c]], ChainPose(EmittingLinks[c]))
       /\ Len(ChainPositions) = Len(joints) + 1
       /\ ChainPositions[1] = << 0, 0, 0 >>
       /\ IsOverlayOf(ret.val[Len(ret.val)], ChainPositions)

\* a detailed list with the mesh of the base link, those of two later links
\* and a polyline that leaves the origin
C21_Witness ==
    /\ Returned("create_robot_traces")
    /\ Detailed
    /\ Len(joints) >= 2
    /\ Len(EmittingLinks) >= 3
    /\ EmittingLinks[1] = 1
    /\ Len(ret.val) = Len(EmittingLinks) + 1
    /\ ret.val[Len(ret.val)].kind = "Scatter3d"
    /\ ChainPositions[Len(joints) + 1] # << 0, 0, 0 >>

---------------------------------------------------------------------------
(* Claims about the joint marker.                                          *)

\* the mesh is a cube with edges of a length along the axes: from corner 0,
\* corner 1 lies along x, corner 3 along y and corner 4 along z, and corner
\* 6 is opposite
IsAxisAlignedCube(m, edge) ==
    /\ Len(m.x) = 8
    /\ VecSub(VertexAt(m, 1), VertexAt(m, 0)) = << edge * m.den, 0, 0 >>
    /\ VecSub(VertexAt(m, 3), VertexAt(m, 0)) = << 0, edge * m.den, 0 >>
    /\ VecSub(VertexAt(m, 4), VertexAt(m, 0)) = << 0, 0, edge * m.den >>
    /\ VecSub(VertexAt(m, 6), VertexAt(m, 0))
           = << edge * m.den, edge * m.den, edge * m.den >>

\* C22: create_joint_connector(position, size, color) returns a cube with
\* edges along the axes, centred on position, whose edge length is size
\* (0.02 gives a cube of 20 mm).
C22_MarkerEdgeIsSize ==
    Returned("create_joint_connector")
    => /\ MarkerCentredOn(ret.val, args.position)
       /\ IsAxisAlignedCube(ret.val, args.size)

---------------------------------------------------------------------------
(* Claims about what the loader makes of a description.                    *)

\* the value of an attribute of an optional element: as written if the
\* element is there and has the attribute, else the default
Given(el, attr, default) ==
    IF el.present /\ attr \in el.attrs THEN el[attr] ELSE default

\* the origin loaded from an optional <origin> element
LoadedOrigin(origin, el) ==
    /\ origin.xyz = Given(el, "xyz", << 0, 0, 0 >>)
    /\ origin.rpy = Given(el, "rpy", << 0, 0, 0 >>)

\* C23: the loader fills in defaults: a joint or a visual without <origin>
\* has the translation (0, 0, 0) and the rotation (0, 0, 0), a joint without
\* <axis> the axis (0, 0, 1), a joint without <limit> the limits -pi and pi;
\* an element that is there but lacks an attribute has the default for that
\* attribute only.
C23_LoaderDefaults ==
    Called("__init__")
    => /\ \A t \in 1..Len(joints) :
             /\ LoadedOrigin(joints[t].origin, Loaded.joints[t].origin)
             /\ joints[t].axis = Given(Loaded.joints[t].axis, "xyz", << 0, 0, 10 >>)
             /\ joints[t].limits.lower = Given(Loaded.joints[t].limit, "lower", -2)
             /\ joints[t].limits.upper = Given(Loaded.joints[t].limit, "upper", 2)
       /\ \A t \in 1..Len(links) :
             ~links[t].visual.isNone
             => LoadedOrigin(links[t].visual.origin, Loaded.links[t].origin)

\* a description is loaded that has a joint without <origin>, <axis> and
\* <limit> and a joint whose <origin> has an xyz but no rpy
C23_Witness ==
    /\ Called("__init__")
    /\ ret.err = "none"
    /\ \E t \in 1..Len(joints) :
          /\ ~Loaded.joints[t].origin.present
          /\ ~Loaded.joints[t].axis.present
          /\ ~Loaded.joints[t].limit.present
    /\ \E t \in 1..Len(joints) :
          /\ Loaded.joints[t].origin.present
          /\ Loaded.joints[t].origin.attrs = {"xyz"}
          /\ joints[t].origin.xyz # << 0, 0, 0 >>

---------------------------------------------------------------------------
(* Claims about what forward_kinematics makes of a joint.                  *)

\* the joints with other limits
WithLimits(js, lower, upper) ==
    Tup([t \in 1..Len(js) |-> [js[t] EXCEPT !.limits = [lower |-> lower, upper |-> upper]]])

\* the angle of joint k lies outside its limits
OutsideLimits(k) ==
    \/ args.joint_angles[k] > joints[k].limits.upper
    \/ args.joint_angles[k] < joints[k].limits.lower

\* C24: forward_kinematics uses every angle as given, also outside the
\* limits of its joint: the poses are the products at the angles supplied,
\* and they are the same whatever the limits of the joints.
C24_LimitsIgnored ==
    Returned("forward_kinematics")
    => /\ \A k \in 1..Len(ret.val) :
             ret.val[k] = ChainProduct(joints, args.joint_angles, 1, k)
       /\ ret = forward_kinematics(WithLimits(joints, 0, 0), args.joint_angles)
       /\ ret = forward_kinematics(WithLimits(joints, -MaxAngle - 1, MaxAngle + 1),
                                   args.joint_angles)

\* a call with an angle above the upper limit of its joint, where the pose
\* at the limit is another
C24_Witness ==
    /\ Returned("forward_kinematics")
    /\ \E k \in 1..Len(ret.val) :
          /\ OutsideLimits(k)
          /\ T_rotation(joints[k].axis, args.joint_angles[k])
                 # T_rotation(joints[k].axis, joints[k].limits.upper)

---------------------------------------------------------------------------
(* Claims about the buffers of the meshes.                                 *)

\* vertex v of a mesh taken back through a rigid pose: R^T (v - t)
TakenBack(m, P, v) ==
    MatVec(Transpose(RotOf(P)),
           VecSub(VertexAt(m, v),
                  << TransOf(P)[1] * m.den, TransOf(P)[2] * m.den, TransOf(P)[3] * m.den >>))

\* the vertices of a mesh, taken back through a pose, are those of a
\* template, one by one
RoundTrip(m, P, template) ==
    /\ m.den = template.den
    /\ Len(m.x) = Len(template.x)
    /\ \A v \in 0..(Len(m.x) - 1) : TakenBack(m, P, v) = VertexAt(template, v)

\* the mesh the builder of the call returns for the identity pose
Template ==
    IF op = "create_cylinder_mesh"
    THEN create_cylinder_mesh(args.radius, args.length, Eye(4), "#808080")
    ELSE create_box_mesh(args.size, Eye(4), "#808080")

\* C25: for the cylinder and the box builder and every rigid pose P, the
\* inverse of P applied to the vertices returned gives the vertices the
\* builder returns for the identity pose and the same dimensions, vertex for
\* vertex in the same order.
C25_RoundTrip ==
    ((Returned("create_cylinder_mesh") \/ Returned("create_box_mesh"))
        /\ IsRigid(args.transform))
    => RoundTrip(ret.val, args.transform, Template)

\* a cylinder with a length placed with a pose that turns about more than
\* one axis and moves
C25_Witness ==
    /\ Returned("create_cylinder_mesh")
    /\ args.length > 0
    /\ IsRigid(args.transform)
    /\ TransOf(args.transform) # << 0, 0, 0 >>
    /\ \A c \in 1..3 : RotOf(args.transform)[c][c] # 1
    /\ ret.val # Template

MeshBuilders ==
    {"create_cylinder_mesh", "create_box_mesh", "create_link_cylinder",
     "create_joint_connector"}

\* the buffers of a mesh fit each other
BuffersFit(m) ==
    /\ Len(m.y) = Len(m.x) /\ Len(m.z) = Len(m.x)
    /\ Len(m.j) = Len(m.i) /\ Len(m.k) = Len(m.i)
    /\ \A t \in 1..Len(m.i) :
          /\ {m.i[t], m.j[t], m.k[t]} \subseteq 0..(Len(m.x) - 1)
          /\ m.i[t] # m.j[t] /\ m.j[t] # m.k[t] /\ m.i[t] # m.k[t]

\* C26: in every mesh the four builders return, the x, y and z buffers
\* have one length V, the i, j and k buffers have one length, every index
\* lies in 0..V-1 and the three indices of a triangle differ from each
\* other.
C26_BuffersFit ==
    (op \in MeshBuilders /\ ret.err = "none" /\ ret.val # None)
    => BuffersFit(ret.val)

\* a connector between two points apart, with its 42 vertices and its
\* triangles
C26_Witness ==
    /\ Returned("create_link_cylinder")
    /\ ret.val # None
    /\ Len(ret.val.x) = 2 * n_segments + 2
    /\ Len(ret.val.i) > 0

---------------------------------------------------------------------------
(* Claims about the axis and the kind of a joint.                          *)

Negated(axis) == << -axis[1], -axis[2], -axis[3] >>

\* the joints with the axis of joint k pointing the other way
WithAxisNegated(js, k) ==
    Tup([t \in 1..Len(js) |-> IF t = k THEN [js[t] EXCEPT !.axis = Negated(@)] ELSE js[t]])

\* C27: forward_kinematics ignores the sign of an axis: the model that
\* differs in the axis of one joint being -v for v has the same poses for
\* the same angles, the rotation being by +angle about the positive
\* canonical axis for both.
C27_AxisSignIgnored ==
    Returned("forward_kinematics")
    => \A k \in 1..Len(ret.val) :
          /\ forward_kinematics(WithAxisNegated(joints, k), args.joint_angles) = ret
          /\ T_rotation(Negated(joints[k].axis), args.joint_angles[k])
                 = PriorityRotation(joints[k].axis, args.joint_angles[k])
          /\ T_rotation(joints[k].axis, args.joint_angles[k])
                 = PriorityRotation(joints[k].axis, args.joint_angles[k])

\* a call that turns a joint with a canonical axis by a quarter, which is
\* not the turn by a quarter the other way round
C27_Witness ==
    /\ Returned("forward_kinematics")
    /\ \E k \in 1..Len(ret.val) :
          /\ OverThreshold(joints[k].axis) # {}
          /\ args.joint_angles[k] = 1
          /\ T_rotation(joints[k].axis, 1) # T_rotation(joints[k].axis, -1)

\* the joints, all of one type
OfType(js, type) == Tup([t \in 1..Len(js) |-> [js[t] EXCEPT !.type = type]])

\* C28: forward_kinematics applies the angle to every joint whatever its
\* type: a fixed joint (or one of any other type) is turned like a revolute
\* joint with its axis and angle, and every joint takes one entry of the
\* angle vector and adds one pose.
C28_JointTypeIgnored ==
    Returned("forward_kinematics")
    => /\ Len(ret.val) = Len(joints)
       /\ \A k \in 1..Len(ret.val) :
             ret.val[k]
                 = MatMul(MatMul(PoseBefore(ret.val, k), T_joint(joints[k])),
                          PriorityRotation(joints[k].axis, args.joint_angles[k]))
       /\ forward_kinematics(OfType(joints, "revolute"), args.joint_angles) = ret
       /\ forward_kinematics(OfType(joints, "fixed"), args.joint_angles) = ret

\* a call that turns a fixed joint about its axis
C28_Witness ==
    /\ Returned("forward_kinematics")
    /\ \E k \in 1..Len(ret.val) :
          /\ joints[k].type = "fixed"
          /\ OverThreshold(joints[k].axis) # {}
          /\ args.joint_angles[k] % 4 # 0
          /\ ret.val[k] # MatMul(PoseBefore(ret.val, k), T_joint(joints[k]))
    /\ \E k \in 1..Len(ret.val) : joints[k].type = "revolute"

---------------------------------------------------------------------------
(* Claims about the length of the angle vector.                            *)

\* the first n entries of a vector
FirstEntries(v, n) == Tup([t \in 1..n |-> v[t]])

\* what the method of the call returns for other angles
ResultFor(joint_angles) ==
    IF op = "forward_kinematics" THEN forward_kinematics(joints, joint_angles)
    ELSE create_robot_traces(variant, joints, links, colors, show_inertia, joint_angles)

Evaluated == Called("forward_kinematics") \/ Called("create_robot_traces")

\* C29: with fewer angles than joints forward_kinematics fails and returns
\* no poses, and create_robot_traces no list; with more angles than joints
\* the entries beyond joints.count are ignored: the result is that for the
\* first joints.count entries.
C29_AngleVectorLength ==
    Evaluated
    => /\ Len(args.joint_angles) < Len(joints)
             => (ret.err # "none" /\ ret.val = << >>)
       /\ Len(args.joint_angles) > Len(joints)
             => /\ ret = ResultFor(FirstEntries(args.joint_angles, Len(joints)))
                /\ Called("forward_kinematics")
                       => /\ ret.err = "none"
                          /\ \A k \in 1..Len(joints) :
                                ret.val[k] = ChainProduct(joints, args.joint_angles, 1, k)

\* a call with one angle for two or more joints, which fails
C29_Witness ==
    /\ Called("forward_kinematics")
    /\ Len(joints) >= 2
    /\ Len(args.joint_angles) = Len(joints) - 1
    /\ ret.err = "IndexError"

---------------------------------------------------------------------------
(* The dashboard of src/interactive_control.py: one visualizer, the        *)
(* presets table, six sliders, a reset button, one button per preset and   *)
(* the callback update_robot that serves them all.                         *)
(*                                                                         *)
(* Dashboard angles are counted in twelfths of pi, the coarsest unit that  *)
(* holds pi/2 = 6, pi/3 = 4 and pi/4 = 3 of the presets table; a degree    *)
(* reading is then 15 times the angle.                                     *)

\* presets, as the module defines it
PresetTable ==
    [name \in {"Home", "Config 1", "Vertical", "Reach Forward"} |->
        CASE name = "Home"          -> << 0, 0, 0, 0, 0, 0 >>
          [] name = "Config 1"      -> << 0, -6, -4, -3, -6, 0 >>
          [] name = "Vertical"      -> << 0, -6, 0, 0, 0, 0 >>
          [] name = "Reach Forward" -> << 0, -3, -3, -3, 0, 0 >>]

\* a component id: f'slider-{i}', 'reset-btn', f'preset-{name}'
ComponentId(prefix, name) == [prefix |-> prefix, name |-> name]

\* str(i) for the slider numbers
Numeral == << "0", "1", "2", "3", "4", "5" >>

SliderId(i) == ComponentId("slider-", Numeral[i + 1])

ResetBtn == ComponentId("", "reset-btn")

PresetId(name) == ComponentId("preset-", name)

\* an entry of callback_context.triggered; prop_id is '<id>.<property>',
\* kept as the two parts that split('.') yields
Triggered(id, property) == [prop_id |-> << id, property >>]

\* the positions the sliders are dragged to
SliderStops == {-6, 0, 6}

\* the sliders that are dragged, counted from 1: two whose joints the
\* presets turn and one they leave at 0
DraggedSliders == {1, 2, 5}

\* the value of the six sliders on the page: value=0 in the layout, then
\* whatever the callback last wrote to the slider outputs
SliderValues ==
    IF op = "update_robot" /\ ret.err = "none" THEN ret.val.sliders
    ELSE << 0, 0, 0, 0, 0, 0 >>

\* the angles update_robot goes on with, whatever the trigger
current_angles_from_sliders(slider_values, triggered, table) == slider_values

\* the angles update_robot goes on with
current_angles(slider_values, triggered, table) ==
    IF triggered = << >> THEN slider_values
    ELSE LET button_id == triggered[1].prop_id[1]
         IN  IF button_id = ResetBtn THEN << 0, 0, 0, 0, 0, 0 >>
             ELSE IF button_id.prefix = "preset-" /\ button_id.name \in DOMAIN table
                 THEN table[button_id.name]
             ELSE slider_values

\* visualizer.create_robot_traces at dashboard angles.  The arithmetic of
\* forward_kinematics is carried out where every angle is a whole number of
\* quarter turns; at the other angles the traces are kept as the angle
\* vector they are computed from.
visualizer_traces(angles) ==
    IF \A i \in 1..Len(angles) : angles[i] % 6 = 0
    THEN create_robot_traces(variant, joints, links, colors, show_inertia,
                             Tup([i \in 1..Len(angles) |-> angles[i] \div 6]))
    ELSE IF Len(angles) < Len(joints) THEN Raise("IndexError")
    ELSE Ok([at_angles |-> angles])

\* go.Figure(data=traces); update_layout leaves the data alone
Figure(traces) == [data |-> traces]

\* the label under a slider: the angle in radians and in degrees
slider_output(angle) == [rad |-> angle, deg |-> 15 * angle]

update_robot(slider_values, triggered, table) ==
    LET angles == current_angles(slider_values, triggered, table)
        traces == visualizer_traces(angles)
    IN  IF traces.err # "none" THEN traces
        ELSE Ok([figure         |-> Figure(traces.val),
                 sliders        |-> angles,
                 outputs        |-> Tup([i \in 1..Len(angles) |-> slider_output(angles[i])]),
                 angles_display |-> Tup([i \in 1..Len(angles) |-> slider_output(angles[i])])])

\* the module as imported: the visualizer in skeleton mode on a six-joint
\* arm, the presets table, the page not yet served
InitDash ==
    /\ variant = "visualization"
    /\ show_inertia = FALSE
    /\ joints = ChainAt(0, 6)
    /\ links = parse_links("visualization", DefaultLayout).val
    /\ colors = InitColors
    /\ presets = PresetTable
    /\ op = "init"
    /\ args = NoArgs
    /\ ret = Ok(<< >>)
    /\ calls = 0

\* one invocation of the callback
CallUpdateRobot(slider_values, triggered) ==
    /\ op' = "update_robot"
    /\ args' = [slider_values |-> slider_values, triggered |-> triggered]
    /\ ret' = update_robot(slider_values, triggered, presets)
    /\ calls' = Counted(calls)
    /\ UNCHANGED << joints, links, colors, show_inertia, variant, presets >>

\* prevent_initial_call=False: the page load invokes the callback with
\* nothing triggered
InitialCall ==
    /\ op = "init"
    /\ CallUpdateRobot(SliderValues, << >>)

SliderEvent ==
    /\ op = "update_robot"
    /\ \E i \in DraggedSliders, stop \in SliderStops :
          /\ stop # SliderValues[i]
          /\ CallUpdateRobot([SliderValues EXCEPT ![i] = stop],
                             << Triggered(SliderId(i - 1), "value") >>)

ResetEvent ==
    /\ op = "update_robot"
    /\ CallUpdateRobot(SliderValues, << Triggered(ResetBtn, "n_clicks") >>)

PresetEvent ==
    /\ op = "update_robot"
    /\ \E name \in DOMAIN presets :
          CallUpdateRobot(SliderValues, << Triggered(PresetId(name), "n_clicks") >>)

NextDash == InitialCall \/ SliderEvent \/ ResetEvent \/ PresetEvent

SpecDash == InitDash /\ [][NextDash]_vars

\* the component whose event invoked the callback; the page load has none
TriggerOfCall ==
    IF args.triggered = << >> THEN ComponentId("", "")
    ELSE args.triggered[1].prop_id[1]

\* C30: at every invocation of update_robot, after any sequence of slider,
\* reset and preset events, the six slider values returned are all 0 when
\* the trigger is reset-btn, the named preset's table entry when the trigger
\* is preset-<name>, and the incoming slider values otherwise; the figure is
\* built from the returned angles; and the presets table is as the module
\* defined it.
C30_UpdateRobotFollowsTrigger ==
    /\ Called("update_robot")
       => /\ ret.err = "none"
          /\ Len(ret.val.sliders) = 6
          /\ TriggerOfCall = ResetBtn
                => ret.val.sliders = << 0, 0, 0, 0, 0, 0 >>
          /\ \A name \in DOMAIN PresetTable :
                TriggerOfCall = PresetId(name)
                   => ret.val.sliders = PresetTable[name]
          /\ (/\ TriggerOfCall # ResetBtn
              /\ \A name \in DOMAIN PresetTable : TriggerOfCall # PresetId(name))
                => ret.val.sliders = args.slider_values
          /\ ret.val.figure = Figure(visualizer_traces(ret.val.sliders).val)
    /\ presets = PresetTable

\* the preset 'Config 1' chosen after a slider was dragged away from it
C30_Witness ==
    /\ Called("update_robot")
    /\ calls >= 2
    /\ TriggerOfCall = PresetId("Config 1")
    /\ args.slider_values # PresetTable["Config 1"]
    /\ args.slider_values # << 0, 0, 0, 0, 0, 0 >>
    /\ ret.err = "none"
    /\ ret.val.sliders = << 0, -6, -4, -3, -6, 0 >>

====
